---- MODULE Spec2Model ----
(***************************************************************************)
(* Model of the worktree manager (wtm): the switch command that relocates  *)
(* worktrees between workspace/ and tree/<name>, and the checkout command  *)
(* that creates parked worktrees.  git is an external service: each of its *)
(* calls succeeds only when git's own preconditions hold and the           *)
(* environment lets it (the env inputs of an invocation).  Spec is the     *)
(* state machine of switch and checkout over the slots and the registry.   *)
(* SpecShare adds the untracked files: persist add / list / remove and     *)
(* restore, which copy or link files between a worktree and shared/, with  *)
(* switch moving the worktrees (and the files in them) under them.         *)
(* SpecRestore is restore alone, with every one of its flags.              *)
(***************************************************************************)
EXTENDS Integers, Sequences, FiniteSets, TLC

VARIABLES disk, reg, treeDir, last, scen, files, run, steps

vars == <<disk, reg, treeDir, last, scen, files, run, steps>>

(***************************************************************************)
(* Identifiers are sequences of bytes, so that sanitizeBranchName is       *)
(* computed rune by rune as the code does.                                 *)
(***************************************************************************)
Main == <<"m">>
FeatSlash == <<"f", "/", "x">>
FeatDash == <<"f", "-", "x">>
CommitId == <<"c">>
NoSuchRef == <<"u">>

\* refs/heads of the bare repository, the commit ids it holds, and the
\* identifiers a user passes on the command line
Branches == {Main, FeatSlash, FeatDash}
Commits == {CommitId}
Idents == Branches \cup Commits \cup {NoSuchRef}

\* bound on the number of worktrees ever registered
MaxWorktrees == 4

\* The registry maps a worktree's name to [path, head].  git names a
\* registration when it creates it and never renames it; here the name is the
\* commitish it was created for and a serial number among those.
EmptyReg == [w \in {} |-> w]

(***************************************************************************)
(* Paths relative to the bare repository root.                             *)
(***************************************************************************)
BareRoot == [area |-> "bare", name |-> <<>>]
workspacePath == [area |-> "workspace", name |-> <<>>]
TreePath(n) == [area |-> "tree", name |-> n]
NoPath == [area |-> "none", name |-> <<>>]

(***************************************************************************)
(* A name is a Go string: a sequence of bytes.  A byte is written as its   *)
(* character when it is ASCII and as its two hexadecimal digits otherwise. *)
(* C3 begins a two-byte UTF-8 sequence, EF a three-byte one, A9 BD BF are  *)
(* continuation bytes, and FF is part of no UTF-8 sequence.                *)
(***************************************************************************)
Lead2 == {"C3"}
Lead3 == {"EF"}
Cont == {"A9", "BD", "BF"}
NoUtf8 == {"FF"}

\* utf8.RuneError (U+FFFD), as string(char) encodes it
RuneError == <<"EF", "BF", "BD">>

\* What `for _, char := range name` decodes at the head of the bytes s: the
\* rune, written as the bytes string(char) gives, and the number of bytes
\* the loop advances by.  Bytes that are no UTF-8 sequence give RuneError
\* and an advance of one byte.
DecodeRune(s) ==
  IF s[1] \in Lead2 /\ Len(s) >= 2 /\ s[2] \in Cont
    THEN [char |-> SubSeq(s, 1, 2), width |-> 2]
  ELSE IF s[1] \in Lead3 /\ Len(s) >= 3 /\ s[2] \in Cont /\ s[3] \in Cont
    THEN [char |-> SubSeq(s, 1, 3), width |-> 3]
  ELSE IF s[1] \in Lead2 \cup Lead3 \cup Cont \cup NoUtf8
    THEN [char |-> RuneError, width |-> 1]
  ELSE [char |-> <<s[1]>>, width |-> 1]

\* sanitizeBranchName: the runes of name in order, '-' for every '/'
RECURSIVE sanitizeBranchName(_)
sanitizeBranchName(name) ==
  IF name = <<>> THEN <<>>
  ELSE (IF DecodeRune(name).char = <<"/">> THEN <<"-">> ELSE DecodeRune(name).char)
       \o sanitizeBranchName(SubSeq(name, DecodeRune(name).width + 1, Len(name)))

\* an entry exists at path p (os.Stat succeeds)
Exists(st, p) == \E e \in st.disk : e.path = p

\* the worktrees whose working directory is at path p
WtAt(st, p) == {e.wt : e \in {x \in st.disk : x.path = p}}

\* the worktrees the registry records at path p
RegAt(st, p) == {w \in DOMAIN st.reg : st.reg[w].path = p}

Logged(st, call, src, dst, ok) ==
  [st EXCEPT !.log = Append(@, [call |-> call, src |-> src, dst |-> dst, ok |-> ok])]

\* getCurrentBranch: git branch --show-current inside the worktree at path;
\* the empty name when HEAD is detached
getCurrentBranch(st, path) ==
  LET w == CHOOSE x \in WtAt(st, path) : TRUE
  IN  IF st.reg[w].head.kind = "branch" THEN st.reg[w].head.ref ELSE <<>>

\* An error is the chain of messages fmt.Errorf("...: %w") builds, outermost
\* first; the empty chain is a nil error.
NoErr == <<>>
Wrap(msg, err) == <<msg>> \o err

(***************************************************************************)
(* The external calls.  Each returns [st, ok].                             *)
(***************************************************************************)
\* git worktree move source destination: moves the directory and the
\* registration together, or does nothing
GitWorktreeMove(st, source, destination, envOk) ==
  LET can == /\ envOk
             /\ RegAt(st, source) # {}
             /\ RegAt(st, source) \subseteq WtAt(st, source)
             /\ ~Exists(st, destination)
             /\ RegAt(st, destination) = {}
      w == CHOOSE x \in RegAt(st, source) : TRUE
      moved == [st EXCEPT
                  !.disk = (@ \ {[path |-> source, wt |-> w]})
                             \cup {[path |-> destination, wt |-> w]},
                  !.reg = [@ EXCEPT ![w].path = destination]]
  IN  IF can
        THEN [st |-> Logged(moved, "move", source, destination, TRUE), ok |-> TRUE]
        ELSE [st |-> Logged(st, "move", source, destination, FALSE), ok |-> FALSE]

\* os.Rename(source, destination): the directory moves, the registry is untouched
OsRename(st, source, destination, envOk) ==
  LET can == envOk /\ Exists(st, source) /\ ~Exists(st, destination)
      moved == [st EXCEPT
                  !.disk = {e \in @ : e.path # source}
                             \cup {[path |-> destination, wt |-> w] : w \in WtAt(st, source)}]
  IN  IF can
        THEN [st |-> Logged(moved, "rename", source, destination, TRUE), ok |-> TRUE]
        ELSE [st |-> Logged(st, "rename", source, destination, FALSE), ok |-> FALSE]

\* git worktree repair, run in the bare repository with no path argument.
\* It rewrites the .git file of the worktrees found at their registered
\* paths and leaves worktrees/<name>/gitdir alone: git finds a linked worktree
\* that was moved by hand only when repair runs inside it or is given its new
\* path, and this call does neither.  So on exit 0 the registry is as before
\* (git 2.39: the moved worktree stays registered at its old path, listed as
\* prunable); the environment decides only the exit status.
GitWorktreeRepair(st, envOk) ==
  [st |-> Logged(st, "repair", NoPath, NoPath, envOk), ok |-> envOk]

\* the HEAD git worktree add gives a new worktree for commitish
HeadFor(commitish) ==
  IF commitish \in Branches
    THEN [kind |-> "branch", ref |-> commitish]
    ELSE [kind |-> "detached", ref |-> commitish]

\* git worktree add path commitish
GitWorktreeAdd(st, path, commitish, envOk) ==
  LET checkedOut == {st.reg[w].head.ref :
                       w \in {x \in DOMAIN st.reg : st.reg[x].head.kind = "branch"}}
      can == /\ envOk
             /\ ~Exists(st, path)
             /\ RegAt(st, path) = {}
             /\ commitish \in Branches \cup Commits
             /\ commitish \notin checkedOut
      w == [ref |-> commitish,
            n |-> Cardinality({x \in DOMAIN st.reg : x.ref = commitish}) + 1]
      added == [st EXCEPT
                  !.disk = @ \cup {[path |-> path, wt |-> w]},
                  !.reg = [x \in DOMAIN @ \cup {w} |->
                             IF x = w THEN [path |-> path, head |-> HeadFor(commitish)]
                                      ELSE @[x]]]
  IN  IF can
        THEN [st |-> Logged(added, "add", NoPath, path, TRUE), ok |-> TRUE]
        ELSE [st |-> Logged(st, "add", NoPath, path, FALSE), ok |-> FALSE]

\* os.MkdirAll(treeDir)
MkdirTree(st) ==
  Logged([st EXCEPT !.treeDir = TRUE], "mkdir", NoPath, NoPath, TRUE)

(***************************************************************************)
(* moveWorktree: native move first, then rename and repair.                *)
(* env = [native, rename, repair] are what the environment lets succeed.   *)
(***************************************************************************)
\* moveWorktree with the fallback copying the directory instead of renaming it
moveWorktreeCopies(st, source, destination, env) ==
  LET mv == GitWorktreeMove(st, source, destination, env.native)
      rn == OsRename(mv.st, source, destination, env.rename)
      kept == [rn.st EXCEPT !.disk = @ \cup {e \in st.disk : e.path = source}]
      rp == GitWorktreeRepair(kept, env.repair)
  IN  IF mv.ok THEN [st |-> mv.st, err |-> NoErr]
      ELSE IF ~rn.ok THEN [st |-> rn.st, err |-> <<"failed to move directory">>]
      ELSE IF ~rp.ok
        THEN [st |-> rp.st,
              err |-> <<"moved directory but failed to repair git metadata">>]
      ELSE [st |-> rp.st, err |-> NoErr]

\* moveWorktree running the repair whether or not the rename succeeded
moveWorktreeRepairsAlways(st, source, destination, env) ==
  LET mv == GitWorktreeMove(st, source, destination, env.native)
      rn == OsRename(mv.st, source, destination, env.rename)
      rp == GitWorktreeRepair(rn.st, env.repair)
  IN  IF mv.ok THEN [st |-> mv.st, err |-> NoErr]
      ELSE IF ~rn.ok THEN [st |-> rp.st, err |-> <<"failed to move directory">>]
      ELSE IF ~rp.ok
        THEN [st |-> rp.st,
              err |-> <<"moved directory but failed to repair git metadata">>]
      ELSE [st |-> rp.st, err |-> NoErr]

\* moveWorktree clearing the source away when the rename failed
moveWorktreeDropsSource(st, source, destination, env) ==
  LET mv == GitWorktreeMove(st, source, destination, env.native)
      rn == OsRename(mv.st, source, destination, env.rename)
      rp == GitWorktreeRepair(rn.st, env.repair)
  IN  IF mv.ok THEN [st |-> mv.st, err |-> NoErr]
      ELSE IF ~rn.ok
        THEN [st |-> [rn.st EXCEPT !.disk = {e \in @ : e.path # source}],
              err |-> <<"failed to move directory">>]
      ELSE IF ~rp.ok
        THEN [st |-> rp.st,
              err |-> <<"moved directory but failed to repair git metadata">>]
      ELSE [st |-> rp.st, err |-> NoErr]

moveWorktree(st, source, destination, env) ==
  LET mv == GitWorktreeMove(st, source, destination, env.native)
      rn == OsRename(mv.st, source, destination, env.rename)
      rp == GitWorktreeRepair(rn.st, env.repair)
  IN  IF mv.ok THEN [st |-> mv.st, err |-> NoErr]
      ELSE IF ~rn.ok THEN [st |-> rn.st, err |-> <<"failed to move directory">>]
      ELSE IF ~rp.ok
        THEN [st |-> rp.st,
              err |-> <<"moved directory but failed to repair git metadata">>]
      ELSE [st |-> rp.st, err |-> NoErr]

\* createWorktree
createWorktree(st, path, commitish, envOk) ==
  LET ad == GitWorktreeAdd(st, path, commitish, envOk)
  IN  [st |-> ad.st, err |-> IF ad.ok THEN NoErr ELSE <<"git worktree add failed">>]

\* detectLocation without the tree/ prefix test
detectLocationAnyWorktree(cwd) ==
  IF cwd.area = "bare" THEN [location |-> "bare-root", err |-> NoErr]
  ELSE IF cwd.area = "workspace" THEN [location |-> "workspace", err |-> NoErr]
  ELSE [location |-> "worktree", err |-> NoErr]

\* detectLocation, for a current directory that is the bare root or lies
\* inside a worktree of the repository
detectLocation(cwd) ==
  IF cwd.area = "bare" THEN [location |-> "bare-root", err |-> NoErr]
  ELSE IF cwd.area = "tree"
    THEN [location |-> "", err |-> <<"cannot run switch from inside tree/<branch> directory">>]
  ELSE IF cwd.area = "workspace" THEN [location |-> "workspace", err |-> NoErr]
  ELSE [location |-> "worktree", err |-> NoErr]

(***************************************************************************)
(* switch <branch|commit>                                                  *)
(* env = [fail, vacate, occupy, add]: fail names the early system call the *)
(* environment makes fail (or "none"); vacate and occupy are the           *)
(* moveWorktree environments of the two moves; add is whether git worktree *)
(* add is let to succeed.                                                  *)
(***************************************************************************)
\* switchVacate without the test that tree/<current-branch> exists
switchVacateNoCollisionTest(st, currentBranch, env) ==
  LET sanitizedCurrent == sanitizeBranchName(currentBranch)
      currentTargetPath == TreePath(sanitizedCurrent)
      mv == moveWorktree(st, workspacePath, currentTargetPath, env.vacate)
  IN  IF currentBranch = <<>>
        THEN [st |-> st, err |-> <<"workspace exists but is in detached HEAD state">>]
      ELSE IF mv.err # NoErr
        THEN [st |-> mv.st, err |-> Wrap("error moving workspace to tree", mv.err)]
      ELSE [st |-> mv.st, err |-> NoErr]

\* switchVacate without the detached-HEAD test
switchVacateNoDetachedTest(st, currentBranch, env) ==
  LET sanitizedCurrent == sanitizeBranchName(currentBranch)
      currentTargetPath == TreePath(sanitizedCurrent)
      mv == moveWorktree(st, workspacePath, currentTargetPath, env.vacate)
  IN  IF Exists(st, currentTargetPath)
        THEN [st |-> st, err |-> <<"tree/<current> already exists, this shouldn't happen">>]
      ELSE IF mv.err # NoErr
        THEN [st |-> mv.st, err |-> Wrap("error moving workspace to tree", mv.err)]
      ELSE [st |-> mv.st, err |-> NoErr]

\* lines 71-92: move the workspace to tree/<current-branch>
switchVacate(st, currentBranch, env) ==
  LET sanitizedCurrent == sanitizeBranchName(currentBranch)
      currentTargetPath == TreePath(sanitizedCurrent)
      mv == moveWorktree(st, workspacePath, currentTargetPath, env.vacate)
  IN  IF currentBranch = <<>>
        THEN [st |-> st, err |-> <<"workspace exists but is in detached HEAD state">>]
      ELSE IF Exists(st, currentTargetPath)
        THEN [st |-> st, err |-> <<"tree/<current> already exists, this shouldn't happen">>]
      ELSE IF mv.err # NoErr
        THEN [st |-> mv.st, err |-> Wrap("error moving workspace to tree", mv.err)]
      ELSE [st |-> mv.st, err |-> NoErr]

\* switchOccupy never looking for tree/<target>
switchOccupyAlwaysCreates(st, targetCommitish, env) ==
  LET cr == createWorktree(st, workspacePath, targetCommitish, env.add)
  IN  IF cr.err # NoErr
        THEN [st |-> cr.st, err |-> Wrap("error creating worktree", cr.err)]
        ELSE [st |-> cr.st, err |-> NoErr]

\* switchOccupy dropping the error of createWorktree
switchOccupyIgnoresCreateError(st, targetCommitish, env) ==
  LET sanitizedTarget == sanitizeBranchName(targetCommitish)
      targetTreePath == TreePath(sanitizedTarget)
      mv == moveWorktree(st, targetTreePath, workspacePath, env.occupy)
      cr == createWorktree(st, workspacePath, targetCommitish, env.add)
  IN  IF Exists(st, targetTreePath)
        THEN IF mv.err # NoErr
               THEN [st |-> mv.st, err |-> Wrap("error moving tree/<target> to workspace", mv.err)]
               ELSE [st |-> mv.st, err |-> NoErr]
        ELSE [st |-> cr.st, err |-> NoErr]

\* lines 94-111: move tree/<target> to the workspace, or create it there
switchOccupy(st, targetCommitish, env) ==
  LET sanitizedTarget == sanitizeBranchName(targetCommitish)
      targetTreePath == TreePath(sanitizedTarget)
      mv == moveWorktree(st, targetTreePath, workspacePath, env.occupy)
      cr == createWorktree(st, workspacePath, targetCommitish, env.add)
  IN  IF Exists(st, targetTreePath)
        THEN IF mv.err # NoErr
               THEN [st |-> mv.st, err |-> Wrap("error moving tree/<target> to workspace", mv.err)]
               ELSE [st |-> mv.st, err |-> NoErr]
        ELSE IF cr.err # NoErr
               THEN [st |-> cr.st, err |-> Wrap("error creating worktree", cr.err)]
               ELSE [st |-> cr.st, err |-> NoErr]

\* switchRunE going on to the occupying step whatever the vacating step returned
switchRunEIgnoresVacateError(st, cwd, targetCommitish, env) ==
  LET loc == detectLocation(cwd)
      workspaceExists == Exists(st, workspacePath)
      currentBranch == IF workspaceExists THEN getCurrentBranch(st, workspacePath) ELSE <<>>
      made == MkdirTree(st)
      vac == IF workspaceExists THEN switchVacate(made, currentBranch, env)
                                ELSE [st |-> made, err |-> NoErr]
      occ == switchOccupy(vac.st, targetCommitish, env)
  IN  IF loc.err # NoErr THEN [st |-> st, err |-> loc.err]
      ELSE IF env.fail = "chdir"
        THEN [st |-> st, err |-> <<"error changing to bare repo directory">>]
      ELSE IF workspaceExists /\ env.fail = "branch"
        THEN [st |-> st, err |-> <<"error getting current branch from workspace">>]
      ELSE IF env.fail = "mkdir"
        THEN [st |-> st, err |-> <<"error creating tree directory">>]
      ELSE occ

switchRunE(st, cwd, targetCommitish, env) ==
  LET loc == detectLocation(cwd)
      workspaceExists == Exists(st, workspacePath)
      currentBranch == IF workspaceExists THEN getCurrentBranch(st, workspacePath) ELSE <<>>
      made == MkdirTree(st)
      vac == IF workspaceExists THEN switchVacate(made, currentBranch, env)
                                ELSE [st |-> made, err |-> NoErr]
      occ == switchOccupy(vac.st, targetCommitish, env)
  IN  IF loc.err # NoErr THEN [st |-> st, err |-> loc.err]
      ELSE IF env.fail = "chdir"
        THEN [st |-> st, err |-> <<"error changing to bare repo directory">>]
      ELSE IF workspaceExists /\ env.fail = "branch"
        THEN [st |-> st, err |-> <<"error getting current branch from workspace">>]
      ELSE IF env.fail = "mkdir"
        THEN [st |-> st, err |-> <<"error creating tree directory">>]
      ELSE IF vac.err # NoErr THEN vac
      ELSE occ

(***************************************************************************)
(* checkout <commitish>                                                    *)
(***************************************************************************)
RECURSIVE StripTrailingSlashes(_)
StripTrailingSlashes(name) ==
  IF Len(name) > 0 /\ name[Len(name)] = "/"
    THEN StripTrailingSlashes(SubSeq(name, 1, Len(name) - 1))
    ELSE name

RECURSIVE AfterLastSlash(_)
AfterLastSlash(name) ==
  IF \E i \in 1..Len(name) : name[i] = "/"
    THEN AfterLastSlash(Tail(name))
    ELSE name

\* filepath.Base
Base(name) ==
  IF name = <<>> THEN <<".">>
  ELSE IF StripTrailingSlashes(name) = <<>> THEN <<"/">>
  ELSE AfterLastSlash(StripTrailingSlashes(name))

\* lines 93-104 of checkout: the directory name under tree/.  The loop of
\* lines 97-103 is the loop of sanitizeBranchName, written out again.
checkoutDirName(commitish) ==
  IF commitish # Base(commitish)
    THEN sanitizeBranchName(commitish)
    ELSE Base(commitish)

checkoutRunE(st, cwd, commitish, envOk) ==
  LET made == MkdirTree(st)
      worktreePath == TreePath(checkoutDirName(commitish))
      ad == GitWorktreeAdd(made, worktreePath, commitish, envOk)
  IN  IF cwd.area # "bare"
        THEN [st |-> st, err |-> <<"not in a bare repository">>]
      ELSE IF Exists(made, worktreePath)
        THEN [st |-> made, err |-> <<"worktree already exists">>]
      ELSE IF ~ad.ok
        THEN [st |-> ad.st, err |-> <<"error creating worktree", "git worktree add failed">>]
      ELSE [st |-> ad.st, err |-> NoErr]

(***************************************************************************)
(* The filesystem under the bare repository, for persist and restore.      *)
(* A path is the sequence of its components from the filesystem root; the  *)
(* bare repository is the directory r of the root, so that a relative link *)
(* can climb above it.  fs maps the path of every entry to its node.       *)
(***************************************************************************)
BareDir == <<"r">>
SharedDir == BareDir \o <<"shared">>

\* the text of a branch or directory name, as one path component
NameStr(n) ==
  CASE n = Main -> "m"
    [] n = FeatDash -> "f-x"
    [] n = CommitId -> "c"
    [] OTHER -> "u"

\* the directory of a slot
SlotDir(p) ==
  CASE p.area = "bare" -> BareDir
    [] p.area = "workspace" -> BareDir \o <<"workspace">>
    [] OTHER -> BareDir \o <<"tree", NameStr(p.name)>>

\* the empty content, and the contents a file is given
Empty == ""
Contents == {"v1", "v2"}

\* what the process's umask (022) leaves of the mode an entry is created
\* with
Umask(mode) ==
  CASE mode = "0666" -> "0644"
    [] mode = "0777" -> "0755"
    [] OTHER -> mode

\* The nodes.  A link's target is a path as written: [abs, comps], absolute
\* or relative to the directory the link is in.
NoTarget == [abs |-> FALSE, comps |-> <<>>]
FileNode(content, mode) ==
  [kind |-> "file", content |-> content, mode |-> mode, target |-> NoTarget]
DirNode(mode) ==
  [kind |-> "dir", content |-> Empty, mode |-> mode, target |-> NoTarget]
LinkNode(target) ==
  [kind |-> "link", content |-> Empty, mode |-> "0777", target |-> target]

\* filepath.Clean of an absolute path: "." dropped, ".." pops a component
RECURSIVE CleanFrom(_, _)
CleanFrom(done, rest) ==
  IF rest = <<>> THEN done
  ELSE IF Head(rest) = "." THEN CleanFrom(done, Tail(rest))
  ELSE IF Head(rest) = ".."
    THEN CleanFrom(IF done = <<>> THEN done ELSE SubSeq(done, 1, Len(done) - 1),
                   Tail(rest))
  ELSE CleanFrom(Append(done, Head(rest)), Tail(rest))

\* filepath.Join(base, rel) for an absolute base
Join(base, rel) == CleanFrom(<<>>, base \o rel)

\* filepath.Dir of an absolute path
Dir(path) == IF path = <<>> THEN path ELSE SubSeq(path, 1, Len(path) - 1)

\* the length of the longest common prefix of two paths
RECURSIVE CommonLen(_, _)
CommonLen(p, q) ==
  IF p # <<>> /\ q # <<>> /\ Head(p) = Head(q)
    THEN 1 + CommonLen(Tail(p), Tail(q))
    ELSE 0

\* filepath.Rel(basepath, targpath) of two absolute paths: lexical, one ".."
\* for every component of basepath below the common prefix
Rel(basepath, targpath) ==
  LET k == CommonLen(basepath, targpath)
      ups == [i \in 1..(Len(basepath) - k) |-> ".."]
      rel == ups \o SubSeq(targpath, k + 1, Len(targpath))
  IN  IF rel = <<>> THEN <<".">> ELSE rel

\* the entries of fs at or below path
Under(fs, path) ==
  {q \in DOMAIN fs : Len(q) >= Len(path) /\ SubSeq(q, 1, Len(path)) = path}

\* bound on the symbolic links followed in one lookup (the kernel's ELOOP)
MaxHops == 4

\* Path lookup as the kernel does it: component by component from cur,
\* following the links met on the way, and the last one only if follow.
\* found: path is the entry; absent: only the last component is missing and
\* path is where it would be; enoent, enotdir, eloop, enametoolong: the
\* lookup fails.
RECURSIVE Walk(_, _, _, _, _)
Walk(fs, cur, rest, follow, hops) ==
  IF rest = <<>> THEN [status |-> "found", path |-> cur]
  ELSE IF fs[cur].kind # "dir" THEN [status |-> "enotdir", path |-> cur]
  ELSE IF Head(rest) = "." THEN Walk(fs, cur, Tail(rest), follow, hops)
  ELSE IF Head(rest) = ".." THEN Walk(fs, Dir(cur), Tail(rest), follow, hops)
  ELSE LET p == Append(cur, Head(rest))
       IN  IF p \notin DOMAIN fs
             THEN IF Tail(rest) = <<>> THEN [status |-> "absent", path |-> p]
                                       ELSE [status |-> "enoent", path |-> p]
           ELSE IF fs[p].kind = "link" /\ (Tail(rest) # <<>> \/ follow)
             THEN IF hops = 0 THEN [status |-> "eloop", path |-> p]
                  ELSE Walk(fs, IF fs[p].target.abs THEN <<>> ELSE cur,
                            fs[p].target.comps \o Tail(rest), follow, hops - 1)
           ELSE Walk(fs, p, Tail(rest), follow, hops)

\* bound on the components of a path name (the kernel's PATH_MAX): a longer
\* name is refused with ENAMETOOLONG
MaxPath == 8

\* os.Stat and os.Lstat of an absolute path
Stat(fs, path) ==
  IF Len(path) > MaxPath THEN [status |-> "enametoolong", path |-> <<>>]
  ELSE Walk(fs, <<>>, path, TRUE, MaxHops)
Lstat(fs, path) ==
  IF Len(path) > MaxPath THEN [status |-> "enametoolong", path |-> <<>>]
  ELSE Walk(fs, <<>>, path, FALSE, MaxHops)

\* err == nil, and os.IsNotExist(err), of a lookup
Found(w) == w.status = "found"
IsNotExist(w) == w.status \in {"absent", "enoent"}

\* info.IsDir() of a successful os.Stat
IsDir(fs, path) == Found(Stat(fs, path)) /\ fs[Stat(fs, path).path].kind = "dir"

\* fs with the entry at path set to node
Put(fs, path, node) ==
  [q \in DOMAIN fs \cup {path} |-> IF q = path THEN node ELSE fs[q]]

\* os.Mkdir(path, perm): the parent is looked up through links, the last
\* component must be free
Mkdir(fs, path, perm) ==
  LET w == Lstat(fs, path)
  IN  IF w.status = "absent"
        THEN [fs |-> Put(fs, w.path, DirNode(Umask(perm))), ok |-> TRUE]
        ELSE [fs |-> fs, ok |-> FALSE]

\* os.MkdirAll(path, perm): nothing to do for a directory, an error for any
\* other entry; else the parent first, then the directory itself
RECURSIVE MkdirAll(_, _, _)
MkdirAll(fs, path, perm) ==
  IF Found(Stat(fs, path))
    THEN [fs |-> fs, ok |-> IsDir(fs, path)]
  ELSE IF path = <<>> THEN [fs |-> fs, ok |-> FALSE]
  ELSE LET up == MkdirAll(fs, Dir(path), perm)
           mk == Mkdir(up.fs, path, perm)
       IN  IF ~up.ok THEN up
           ELSE IF mk.ok THEN mk
           ELSE [fs |-> mk.fs,
                 ok |-> Found(Lstat(mk.fs, path))
                          /\ mk.fs[Lstat(mk.fs, path).path].kind = "dir"]

\* os.RemoveAll(path): the entry itself (a link is not followed) and all
\* below it; no error when there is nothing at path
RemoveAll(fs, path) ==
  LET w == Lstat(fs, path)
  IN  IF Found(w)
        THEN [fs |-> [q \in DOMAIN fs \ Under(fs, w.path) |-> fs[q]], ok |-> TRUE]
        ELSE [fs |-> fs, ok |-> IsNotExist(w)]

\* os.Symlink(target, linkpath)
Symlink(fs, target, linkpath) ==
  LET w == Lstat(fs, linkpath)
  IN  IF w.status = "absent"
        THEN [fs |-> Put(fs, w.path, LinkNode(target)), ok |-> TRUE]
        ELSE [fs |-> fs, ok |-> FALSE]

\* the filesystem of a freshly cloned repository: the root and the bare
\* repository directory
BaseFs == [q \in {<<>>, BareDir} |-> DirNode("0755")]

\* the names of the entries of a worktree, in the order os.ReadDir and
\* filepath.Walk list them (sorted by name)
Names == <<"a", "b", "d">>

\* the names of the entries of the directory at dir (a looked-up path), sorted
ReadDir(fs, dir) ==
  LET Listed(n) == Append(dir, n) \in DOMAIN fs
  IN  SelectSeq(Names, Listed)

\* if err := call; err != nil { return err } (persist.go, copyDir's loop):
\* r = [fs, ok] is the outcome of a call, Then what the code goes on to do
\* with the files it left
IfOk(r, Then(_)) == IF r.ok THEN Then(r.fs) ELSE r

\* copyFile without the final os.Chmod
copyFileNoChmod(fs, src, dst) ==
  LET s == Stat(fs, src)
      d == Stat(fs, dst)
      canCreate == \/ d.status = "absent"
                   \/ Found(d) /\ fs[d.path].kind = "file"
      created == Put(fs, d.path,
                     FileNode(Empty, IF Found(d) THEN fs[d.path].mode ELSE Umask("0666")))
  IN  IF ~Found(s) THEN [fs |-> fs, ok |-> FALSE]
      ELSE IF ~canCreate THEN [fs |-> fs, ok |-> FALSE]
      ELSE IF created[s.path].kind # "file" THEN [fs |-> created, ok |-> FALSE]
      ELSE [fs |-> Put(created, d.path,
                       FileNode(created[s.path].content, created[d.path].mode)),
            ok |-> TRUE]

\* copyFile: os.Open(src), os.Create(dst) (a new file, or an existing one
\* truncated, both through links), io.Copy, os.Chmod(dst, mode of src)
copyFile(fs, src, dst) ==
  LET s == Stat(fs, src)
      d == Stat(fs, dst)
      canCreate == \/ d.status = "absent"
                   \/ Found(d) /\ fs[d.path].kind = "file"
      created == Put(fs, d.path,
                     FileNode(Empty, IF Found(d) THEN fs[d.path].mode ELSE Umask("0666")))
  IN  IF ~Found(s) THEN [fs |-> fs, ok |-> FALSE]
      ELSE IF ~canCreate THEN [fs |-> fs, ok |-> FALSE]
      ELSE IF created[s.path].kind # "file" THEN [fs |-> created, ok |-> FALSE]
      ELSE [fs |-> Put(created, d.path,
                       FileNode(created[s.path].content, created[s.path].mode)),
            ok |-> TRUE]

\* copyDir: os.MkdirAll(dst), then every entry of src in turn, a directory
\* by copyDir and anything else (a link too) by copyFile; the first error
\* ends the copy.  copyEntries is the loop over the entries read at snap.
RECURSIVE copyDir(_, _, _)
RECURSIVE copyEntries(_, _, _, _, _)
copyEntries(fs, snap, src, dst, names) ==
  IF names = <<>> THEN [fs |-> fs, ok |-> TRUE]
  ELSE LET srcPath == Join(src, <<Head(names)>>)
           dstPath == Join(dst, <<Head(names)>>)
           entry == snap[Append(Stat(snap, src).path, Head(names))]
       IN  IfOk(IF entry.kind = "dir" THEN copyDir(fs, srcPath, dstPath)
                                      ELSE copyFile(fs, srcPath, dstPath),
                LAMBDA f : copyEntries(f, snap, src, dst, Tail(names)))

copyDir(fs, src, dst) ==
  LET s == Stat(fs, src)
  IN  IF ~Found(s) THEN [fs |-> fs, ok |-> FALSE]
      ELSE IfOk(MkdirAll(fs, dst, fs[s.path].mode),
                LAMBDA f :
                  IF ~IsDir(f, src) THEN [fs |-> f, ok |-> FALSE]
                  ELSE copyEntries(f, f, src, dst, ReadDir(f, Stat(f, src).path)))

\* copyPath
copyPath(fs, src, dst) ==
  IF ~Found(Stat(fs, src)) THEN [fs |-> fs, ok |-> FALSE]
  ELSE IF IsDir(fs, src) THEN copyDir(fs, src, dst)
  ELSE copyFile(fs, src, dst)

(***************************************************************************)
(* persist add | list | remove and restore.  A command-line path is        *)
(* [abs, comps]: whether it is absolute, and its components; NoArg is the  *)
(* empty string.  Each handler returns [fs, err] (and what it printed).    *)
(***************************************************************************)
NoArg == [abs |-> FALSE, comps |-> <<>>]
RelArg(comps) == [abs |-> FALSE, comps |-> comps]

\* if err := call; err != nil { return fmt.Errorf(msg) }, and return nil
\* (persist.go, the end of persist add's RunE)
Try(r, msg, Then(_)) == IF r.ok THEN Then(r.fs) ELSE [fs |-> r.fs, err |-> <<msg>>]
Done(fs) == [fs |-> fs, err |-> NoErr]

\* findRepoRoots, started in the slot (or outside any repository) cwd
findRepoRoots(cwd) ==
  IF cwd.area = "none"
    THEN [bareRepoRoot |-> <<>>, worktreeRoot |-> <<>>, err |-> <<"not in a git repository">>]
  ELSE IF cwd.area = "bare"
    THEN [bareRepoRoot |-> <<>>, worktreeRoot |-> <<>>,
          err |-> <<"cannot run persist from bare repository">>]
  ELSE [bareRepoRoot |-> BareDir, worktreeRoot |-> SlotDir(cwd), err |-> NoErr]

\* persistAddCmd.RunE
persistAddRunE(fs, cwd, targetPath) ==
  LET roots == findRepoRoots(cwd)
      absTargetPath == IF targetPath.abs THEN targetPath.comps
                       ELSE Join(roots.worktreeRoot, targetPath.comps)
      relPath == Rel(roots.worktreeRoot, CleanFrom(<<>>, absTargetPath))
      destPath == Join(SharedDir, relPath)
  IN  IF roots.err # NoErr THEN [fs |-> fs, err |-> roots.err]
      ELSE IF IsNotExist(Stat(fs, absTargetPath))
        THEN [fs |-> fs, err |-> <<"file or directory does not exist">>]
      ELSE IF Found(Stat(fs, destPath))
        THEN [fs |-> fs, err |-> <<"file already exists in shared storage">>]
      ELSE Try(MkdirAll(fs, Dir(destPath), "0755"),
               "error creating shared directory structure",
               LAMBDA made :
                 Try(copyPath(made, absTargetPath, destPath),
                     "error copying to shared storage", Done))

\* persistListCmd.RunE: the relative paths it prints (filepath.Walk lists
\* every entry below shared/ and follows no link); nothing without shared/
persistListRunE(fs, cwd) ==
  LET roots == findRepoRoots(cwd)
  IN  IF roots.err # NoErr THEN [out |-> {}, err |-> roots.err]
      ELSE IF IsNotExist(Stat(fs, SharedDir)) THEN [out |-> {}, err |-> NoErr]
      ELSE IF ~Found(Lstat(fs, SharedDir))
        THEN [out |-> {}, err |-> <<"error listing shared files">>]
      ELSE [out |-> {Rel(SharedDir, q) :
                       q \in Under(fs, Lstat(fs, SharedDir).path) \ {Lstat(fs, SharedDir).path}},
            err |-> NoErr]

\* persistRemoveCmd.RunE
persistRemoveRunE(fs, cwd, targetPath) ==
  LET roots == findRepoRoots(cwd)
      targetFullPath == Join(SharedDir, targetPath.comps)
  IN  IF roots.err # NoErr THEN [fs |-> fs, err |-> roots.err]
      ELSE IF IsNotExist(Stat(fs, targetFullPath))
        THEN [fs |-> fs, err |-> <<"file not found in shared storage">>]
      ELSE Try(RemoveAll(fs, targetFullPath), "error removing from shared storage", Done)

\* the flags of restore: opts = [link, to, force, all]; none set
NoOpts == [link |-> FALSE, to |-> NoArg, force |-> FALSE, all |-> FALSE]
\* restoreFile taking no notice of --to
restoreFileIgnoresTo(fs, targetPath, worktreeRoot, opts) ==
  LET sourcePath == Join(SharedDir, targetPath.comps)
      sourceIsDir == IsDir(fs, sourcePath)
      destPath == Join(worktreeRoot, targetPath.comps)
      relLink == Rel(Dir(destPath), sourcePath)
      Cleared(f) == IF opts.force THEN RemoveAll(f, destPath).fs ELSE f
  IN  IF IsNotExist(Stat(fs, sourcePath))
        THEN [fs |-> fs, err |-> <<"file not found in shared storage">>]
      ELSE IF ~Found(Stat(fs, sourcePath))
        THEN [fs |-> fs, err |-> <<"error accessing shared file">>]
      ELSE IF Found(Stat(fs, destPath)) /\ ~opts.force
        THEN [fs |-> fs, err |-> <<"file already exists">>]
      ELSE Try(MkdirAll(fs, Dir(destPath), "0755"), "error creating parent directories",
               LAMBDA made :
                 IF opts.link
                   THEN Try(Symlink(Cleared(made), RelArg(relLink), destPath),
                            "error creating symlink", Done)
                 ELSE IF sourceIsDir
                   THEN Try(copyDir(Cleared(made), sourcePath, destPath),
                            "error copying directory", Done)
                 ELSE Try(copyFile(Cleared(made), sourcePath, destPath),
                          "error copying file", Done))

\* restoreFile: one entry of shared/ into the worktree
restoreFile(fs, targetPath, worktreeRoot, opts) ==
  LET sourcePath == Join(SharedDir, targetPath.comps)
      sourceIsDir == IsDir(fs, sourcePath)
      destPath == IF opts.to # NoArg
                    THEN IF opts.to.abs THEN opts.to.comps
                         ELSE Join(worktreeRoot, opts.to.comps)
                    ELSE Join(worktreeRoot, targetPath.comps)
      relLink == Rel(Dir(destPath), sourcePath)
      \* if restoreForce { os.RemoveAll(destPath) }, its error dropped
      Cleared(f) == IF opts.force THEN RemoveAll(f, destPath).fs ELSE f
  IN  IF IsNotExist(Stat(fs, sourcePath))
        THEN [fs |-> fs, err |-> <<"file not found in shared storage">>]
      ELSE IF ~Found(Stat(fs, sourcePath))
        THEN [fs |-> fs, err |-> <<"error accessing shared file">>]
      ELSE IF Found(Stat(fs, destPath)) /\ ~opts.force
        THEN [fs |-> fs, err |-> <<"file already exists">>]
      ELSE Try(MkdirAll(fs, Dir(destPath), "0755"), "error creating parent directories",
               LAMBDA made :
                 IF opts.link
                   THEN Try(Symlink(Cleared(made), RelArg(relLink), destPath),
                            "error creating symlink", Done)
                 ELSE IF sourceIsDir
                   THEN Try(copyDir(Cleared(made), sourcePath, destPath),
                            "error copying directory", Done)
                 ELSE Try(copyFile(Cleared(made), sourcePath, destPath),
                          "error copying file", Done))

\* The function restoreAllFiles hands to filepath.Walk, called for the entry
\* at path, isDir what Lstat said of it.  ctx = [root, opts] are the worktree
\* root and the flags.  The state of a walk is [fs, tried, skip, err]: the
\* files, the entries handed to restoreFile with the outcome of each, whether
\* the function returned filepath.SkipDir, and the error that ends the walk.
restoreAllTried(one, relPath, isDir, tried) ==
  [fs |-> one.fs, tried |-> Append(tried, [path |-> relPath, err |-> one.err]),
   skip |-> isDir, err |-> NoErr]

\* restoreAllVisit restoring the nested entries too
restoreAllVisitNested(acc, path, isDir, ctx) ==
  IF path = SharedDir THEN [acc EXCEPT !.skip = FALSE]
  ELSE [restoreAllTried(restoreFile(acc.fs, RelArg(Rel(SharedDir, path)), ctx.root, ctx.opts),
                        Rel(SharedDir, path), isDir, acc.tried)
          EXCEPT !.skip = FALSE]

restoreAllVisit(acc, path, isDir, ctx) ==
  IF path = SharedDir THEN [acc EXCEPT !.skip = FALSE]
  ELSE IF Len(Rel(SharedDir, path)) > 1 THEN [acc EXCEPT !.skip = FALSE]
  ELSE restoreAllTried(restoreFile(acc.fs, RelArg(Rel(SharedDir, path)), ctx.root, ctx.opts),
                       Rel(SharedDir, path), isDir, acc.tried)

\* filepath.Walk (path/filepath): walk calls the function on the entry at
\* path and, for a directory, on the entries below it in lexical order.  The
\* names of a directory are read before the function is called on it; a
\* SkipDir from a directory skips its entries, one from a file the rest of
\* the directory the file is in; an entry that is gone at its turn is handed
\* to the function with the error, which the function returns.
RECURSIVE walk(_, _, _)
RECURSIVE walkNames(_, _, _, _)
walkDir(visited, path, names, ctx) ==
  IF visited.err # NoErr \/ visited.skip THEN visited
  ELSE walkNames(visited, path, names, ctx)

walkRest(walked, wasDir, dir, names, ctx) ==
  IF walked.err # NoErr THEN walked
  ELSE IF walked.skip /\ ~wasDir THEN walked
  ELSE walkNames(walked, dir, names, ctx)

walkNames(acc, dir, names, ctx) ==
  IF names = <<>> THEN [acc EXCEPT !.skip = FALSE]
  ELSE IF Append(dir, Head(names)) \notin DOMAIN acc.fs
    THEN [acc EXCEPT !.err = <<"no such file or directory">>]
  ELSE walkRest(walk(acc, Append(dir, Head(names)), ctx),
                acc.fs[Append(dir, Head(names))].kind = "dir", dir, Tail(names), ctx)

walk(acc, path, ctx) ==
  IF acc.fs[path].kind # "dir" THEN restoreAllVisit(acc, path, FALSE, ctx)
  ELSE walkDir(restoreAllVisit(acc, path, TRUE, ctx), path, ReadDir(acc.fs, path), ctx)

\* what restoreAllFiles returns once the walk has ended
restoreAllReturn(walked) ==
  [fs |-> walked.fs, tried |-> walked.tried,
   err |-> IF walked.err # NoErr THEN <<"error walking shared directory">>
           ELSE IF \E i \in 1..Len(walked.tried) : walked.tried[i].err # NoErr
             THEN <<"some files failed to restore">>
           ELSE NoErr]

restoreAllFiles(fs, worktreeRoot, opts) ==
  IF ~Found(Lstat(fs, SharedDir))
    THEN [fs |-> fs, tried |-> <<>>, err |-> <<"error walking shared directory">>]
    ELSE restoreAllReturn(walk([fs |-> fs, tried |-> <<>>, skip |-> FALSE, err |-> NoErr],
                               SharedDir, [root |-> worktreeRoot, opts |-> opts]))

\* restoreCmd.RunE testing its arguments after it has found the repository
restoreRunELocatesFirst(fs, cwd, args, opts) ==
  LET roots == findRepoRoots(cwd)
  IN  IF roots.err # NoErr THEN [fs |-> fs, tried |-> <<>>, err |-> roots.err]
      ELSE IF opts.all /\ Len(args) > 0
        THEN [fs |-> fs, tried |-> <<>>, err |-> <<"cannot specify file with --all flag">>]
      ELSE IF ~opts.all /\ Len(args) = 0
        THEN [fs |-> fs, tried |-> <<>>,
              err |-> <<"must specify a file/directory or use --all flag">>]
      ELSE IF IsNotExist(Stat(fs, SharedDir))
        THEN [fs |-> fs, tried |-> <<>>, err |-> <<"no persisted files found">>]
      ELSE IF opts.all THEN restoreAllFiles(fs, roots.worktreeRoot, opts)
      ELSE restoreFile(fs, args[1], roots.worktreeRoot, opts) @@ [tried |-> <<>>]

\* restoreCmd.RunE without the test that shared/ exists
restoreRunENoStoreTest(fs, cwd, args, opts) ==
  LET roots == findRepoRoots(cwd)
  IN  IF opts.all /\ Len(args) > 0
        THEN [fs |-> fs, tried |-> <<>>, err |-> <<"cannot specify file with --all flag">>]
      ELSE IF ~opts.all /\ Len(args) = 0
        THEN [fs |-> fs, tried |-> <<>>,
              err |-> <<"must specify a file/directory or use --all flag">>]
      ELSE IF roots.err # NoErr THEN [fs |-> fs, tried |-> <<>>, err |-> roots.err]
      ELSE IF opts.all THEN restoreAllFiles(fs, roots.worktreeRoot, opts)
      ELSE restoreFile(fs, args[1], roots.worktreeRoot, opts) @@ [tried |-> <<>>]

\* restoreCmd.RunE; args is the sequence of the path arguments
restoreRunE(fs, cwd, args, opts) ==
  LET roots == findRepoRoots(cwd)
  IN  IF opts.all /\ Len(args) > 0
        THEN [fs |-> fs, tried |-> <<>>, err |-> <<"cannot specify file with --all flag">>]
      ELSE IF ~opts.all /\ Len(args) = 0
        THEN [fs |-> fs, tried |-> <<>>,
              err |-> <<"must specify a file/directory or use --all flag">>]
      ELSE IF roots.err # NoErr THEN [fs |-> fs, tried |-> <<>>, err |-> roots.err]
      ELSE IF IsNotExist(Stat(fs, SharedDir))
        THEN [fs |-> fs, tried |-> <<>>, err |-> <<"no persisted files found">>]
      ELSE IF opts.all THEN restoreAllFiles(fs, roots.worktreeRoot, opts)
      ELSE restoreFile(fs, args[1], roots.worktreeRoot, opts) @@ [tried |-> <<>>]

\* the flag values of one restore invocation
RestoreOpts ==
  {[link |-> l, to |-> NoArg, force |-> f, all |-> a] : l, f, a \in BOOLEAN}

\* what is recorded of an invocation besides last: its path arguments and
\* flags, the filesystem it started from, what list printed, and the
\* entries restore --all tried with the outcome of each
NoRun == [args |-> <<>>, opts |-> NoOpts, restore |-> FALSE, fs |-> BaseFs,
          out |-> {}, tried |-> <<>>]

(***************************************************************************)
(* The state machine: one invocation of the tool at a time.                *)
(***************************************************************************)
\* the state an invocation starts from, with an empty call log
Cur == [disk |-> disk, reg |-> reg, treeDir |-> treeDir, log |-> <<>>]

\* the directories an invocation can be started in
Cwds == {BareRoot} \cup {e.path : e \in disk}

\* the environments of moveWorktree, by the first call the environment fails
MoveOk == [native |-> TRUE, rename |-> TRUE, repair |-> TRUE]
Fallback == [native |-> FALSE, rename |-> TRUE, repair |-> TRUE]
RenameFails == [native |-> FALSE, rename |-> FALSE, repair |-> TRUE]
RepairFails == [native |-> FALSE, rename |-> TRUE, repair |-> FALSE]
MoveEnvs == {MoveOk, Fallback, RenameFails, RepairFails}

\* the environments of one switch that differ in what the invocation can
\* observe: an early system call fails; or the vacating move fails; or the
\* vacating move works and the occupying move or git worktree add is any
SwitchEnvs ==
  {[fail |-> f, vacate |-> MoveOk, occupy |-> MoveOk, add |-> TRUE] :
     f \in {"chdir", "branch", "mkdir"}}
  \cup {[fail |-> "none", vacate |-> v, occupy |-> MoveOk, add |-> TRUE] :
     v \in {RenameFails, RepairFails}}
  \cup {[fail |-> "none", vacate |-> v, occupy |-> o, add |-> TRUE] :
     v \in {MoveOk, Fallback}, o \in MoveEnvs}
  \cup {[fail |-> "none", vacate |-> v, occupy |-> MoveOk, add |-> FALSE] :
     v \in {MoveOk, Fallback}}

\* the environments that make a difference to a switch started in cwd: none
\* once detectLocation fails, and no vacating one with the workspace absent
SwitchEnvsFor(cwd) ==
  IF detectLocation(cwd).err # NoErr
    THEN {[fail |-> "none", vacate |-> MoveOk, occupy |-> MoveOk, add |-> TRUE]}
  ELSE IF ~Exists(Cur, workspacePath)
    THEN {e \in SwitchEnvs : e.vacate = MoveOk /\ e.fail # "branch"}
  ELSE SwitchEnvs

\* the scenario of the integration test: switch main, switch feature-x,
\* switch main, each from the bare root of a fresh repository
Script == <<Main, FeatDash, Main>>
OffScript == Len(Script) + 1

Init ==
  /\ disk = {}
  /\ reg = EmptyReg
  /\ treeDir = FALSE
  /\ last = [op |-> "init", arg |-> <<>>, cwd |-> BareRoot, err |-> NoErr,
              log |-> <<>>, pre |-> [disk |-> {}, reg |-> EmptyReg, treeDir |-> FALSE]]
  /\ scen = 0
  /\ files = BaseFs
  /\ run = NoRun
  /\ steps = 0

Finish(op, arg, cwd, r) ==
  /\ Cardinality(DOMAIN r.st.reg) <= MaxWorktrees
  /\ disk' = r.st.disk
  /\ reg' = r.st.reg
  /\ treeDir' = r.st.treeDir
  /\ last' = [op |-> op, arg |-> arg, cwd |-> cwd, err |-> r.err, log |-> r.st.log,
               pre |-> [disk |-> disk, reg |-> reg, treeDir |-> treeDir]]
  /\ scen' = IF /\ op = "switch" /\ scen \in 0..(Len(Script) - 1)
                 /\ arg = Script[scen + 1] /\ r.err = NoErr
               THEN scen + 1
               ELSE OffScript
  /\ UNCHANGED <<files, run, steps>>

Switch ==
  \E targetCommitish \in Idents, cwd \in Cwds :
    \E env \in SwitchEnvsFor(cwd) :
    Finish("switch", targetCommitish, cwd, switchRunE(Cur, cwd, targetCommitish, env))

Checkout ==
  \E commitish \in Idents, cwd \in Cwds :
    \E envOk \in IF cwd.area = "bare" THEN BOOLEAN ELSE {TRUE} :
    Finish("checkout", commitish, cwd, checkoutRunE(Cur, cwd, commitish, envOk))

Next == Switch \/ Checkout

Spec == Init /\ [][Next]_vars

(***************************************************************************)
(* The state machine of persist, restore and switch on a repository with   *)
(* untracked files in its worktrees.                                       *)
(***************************************************************************)
\* bound on the invocations of one behaviour
MaxSteps == 3

\* the paths given on the command line: a file, a directory, a file in it
PathArgs == {RelArg(<<"a">>), RelArg(<<"d">>), RelArg(<<"d", "a">>)}

\* where a command can be started: outside any repository, in the bare
\* root, or in the root of a worktree
ShareCwds == {NoPath, BareRoot} \cup {e.path : e \in disk}
InWorktree(cwd) == cwd.area \in {"workspace", "tree"}

\* The layouts a behaviour starts from.  "switched": main in the workspace
\* and f-x parked, as switch f-x, switch m leave them.  "byhand": a detached
\* workspace the user made with git worktree add, and no tree/ yet.
LayoutDisk(layout) ==
  IF layout = "switched"
    THEN {[path |-> workspacePath, wt |-> [ref |-> Main, n |-> 1]],
          [path |-> TreePath(FeatDash), wt |-> [ref |-> FeatDash, n |-> 1]]}
    ELSE {[path |-> workspacePath, wt |-> [ref |-> CommitId, n |-> 1]]}

LayoutReg(layout) ==
  [w \in {e.wt : e \in LayoutDisk(layout)} |->
     [path |-> (CHOOSE e \in LayoutDisk(layout) : e.wt = w).path,
      head |-> HeadFor(w.ref)]]

\* a tree of untracked files below root, from [relative path |-> node]
Planted(root, tree) == [q \in {root \o s : s \in DOMAIN tree} |-> tree[SubSeq(q, Len(root) + 1, Len(q))]]

\* the untracked files of the workspace: a file a of mode m, a directory d
\* with a file a
WorkspaceFiles(m) ==
  [s \in {<<>>, <<"a">>, <<"d">>, <<"d", "a">>} |->
     IF s = <<"a">> THEN FileNode("v1", m)
     ELSE IF s = <<"d", "a">> THEN FileNode("v2", "0644")
     ELSE DirNode("0755")]

\* the untracked files of the parked worktree: none; or a directory d with a
\* file b; or a file named d; or the link restore d --link makes
ParkedFiles(variant) ==
  CASE variant = "none" -> [s \in {<<>>} |-> DirNode("0755")]
    [] variant = "linked" ->
         [s \in {<<>>, <<"d">>} |->
            IF s = <<"d">> THEN LinkNode(RelArg(<<"..", "..", "shared", "d">>))
                           ELSE DirNode("0755")]
    [] variant = "dir" ->
         [s \in {<<>>, <<"d">>, <<"d", "b">>} |->
            IF s = <<"d", "b">> THEN FileNode("v1", "0644") ELSE DirNode("0755")]
    [] OTHER ->
         [s \in {<<>>, <<"d">>} |->
            IF s = <<"d">> THEN FileNode("v1", "0644") ELSE DirNode("0755")]

\* the store persist add d leaves when run in the workspace
StoredFiles(variant) ==
  IF variant = "linked"
    THEN [s \in {<<>>, <<"d">>, <<"d", "a">>} |->
            IF s = <<"d", "a">> THEN FileNode("v2", "0644") ELSE DirNode("0755")]
    ELSE [s \in {} |-> s]

\* the starting points: [layout, mode of the workspace's file a, files of
\* the parked worktree].  In "linked" the workspace's d is persisted and the
\* parked worktree has it restored as a link.
Fixtures ==
  {[layout |-> "switched", m |-> "0600", variant |-> "none"],
   [layout |-> "switched", m |-> "0600", variant |-> "linked"],
   [layout |-> "switched", m |-> "0755", variant |-> "dir"],
   [layout |-> "switched", m |-> "0600", variant |-> "file"],
   [layout |-> "byhand", m |-> "0600", variant |-> "none"]}

InitShare ==
  \E fx \in Fixtures :
    LET layout == fx.layout
        m == fx.m
        variant == fx.variant
    IN
    /\ disk = LayoutDisk(layout)
    /\ reg = LayoutReg(layout)
    /\ treeDir = (layout = "switched")
    /\ files = BaseFs
                 @@ Planted(SlotDir(workspacePath), WorkspaceFiles(m))
                 @@ (IF layout = "switched"
                       THEN Planted(BareDir, [s \in {<<"tree">>} |-> DirNode("0755")])
                              @@ Planted(SlotDir(TreePath(FeatDash)), ParkedFiles(variant))
                       ELSE BaseFs)
                 @@ Planted(SharedDir, StoredFiles(variant))
    /\ last = [op |-> "init", arg |-> <<>>, cwd |-> BareRoot, err |-> NoErr,
                log |-> <<>>, pre |-> [disk |-> disk, reg |-> reg, treeDir |-> treeDir]]
    /\ run = [NoRun EXCEPT !.fs = files]
    /\ scen = OffScript
    /\ steps = 0

\* An invocation that changed nothing leaves the repository as it found it,
\* and from there every invocation is taken already: the next invocation is
\* taken after Init and after an invocation that changed something.
Settled ==
  /\ last.op # "init"
  /\ files = run.fs
  /\ [disk |-> disk, reg |-> reg, treeDir |-> treeDir] = last.pre

\* r is what the invocation returns: [fs, err, out, tried]
FinishShare(op, cwd, args, opts, r) ==
  /\ steps < MaxSteps
  /\ ~Settled
  /\ steps' = steps + 1
  /\ files' = r.fs
  /\ last' = [op |-> op, arg |-> <<>>, cwd |-> cwd, err |-> r.err, log |-> <<>>,
               pre |-> [disk |-> disk, reg |-> reg, treeDir |-> treeDir]]
  /\ run' = [args |-> args, opts |-> opts, restore |-> FALSE, fs |-> files,
              out |-> r.out, tried |-> r.tried]
  /\ UNCHANGED <<disk, reg, treeDir, scen>>

\* the path arguments tried from cwd: every one inside a worktree, one
\* elsewhere (the command fails in findRepoRoots whatever the path)
PathArgsFor(cwd) == IF InWorktree(cwd) THEN PathArgs ELSE {RelArg(<<"a">>)}

PersistAdd ==
  \E cwd \in ShareCwds :
    \E targetPath \in PathArgsFor(cwd) :
    FinishShare("add", cwd, <<targetPath>>, NoOpts,
                persistAddRunE(files, cwd, targetPath) @@ [out |-> {}, tried |-> <<>>])

PersistList ==
  \E cwd \in ShareCwds :
    FinishShare("list", cwd, <<>>, NoOpts,
                persistListRunE(files, cwd) @@ [fs |-> files, tried |-> <<>>])

PersistRemove ==
  \E cwd \in ShareCwds :
    \E targetPath \in PathArgsFor(cwd) :
    FinishShare("remove", cwd, <<targetPath>>, NoOpts,
                persistRemoveRunE(files, cwd, targetPath) @@ [out |-> {}, tried |-> <<>>])

\* the invocations of restore tried from cwd.  Inside a worktree: every
\* path with every flag, and --all with every flag.  Everywhere: the two
\* usage errors, and elsewhere one well-formed invocation.
RestoreCallsFor(cwd) ==
  {[args |-> <<RelArg(<<"a">>)>>, opts |-> [NoOpts EXCEPT !.all = TRUE]],
   [args |-> <<>>, opts |-> NoOpts]}
  \cup (IF InWorktree(cwd)
          THEN {[args |-> IF o.all THEN <<>> ELSE <<p>>, opts |-> o] :
                  p \in PathArgs, o \in RestoreOpts}
          ELSE {[args |-> <<RelArg(<<"a">>)>>, opts |-> NoOpts]})

Restore ==
  \E cwd \in ShareCwds :
    \E call \in RestoreCallsFor(cwd) :
    FinishShare("restore", cwd, call.args, call.opts,
                restoreRunE(files, cwd, call.args, call.opts) @@ [out |-> {}])

\* the user writes a file of a worktree (open with O_CREAT|O_TRUNC, write)
WriteFile(f, path, content) ==
  LET w == Stat(f, path)
  IN  IF w.status = "absent" THEN Put(f, w.path, FileNode(content, Umask("0666")))
      ELSE IF Found(w) /\ f[w.path].kind = "file"
        THEN Put(f, w.path, FileNode(content, f[w.path].mode))
      ELSE f

Edit ==
  \E e \in disk, p \in {<<"a">>, <<"d", "a">>}, c \in Contents :
    /\ WriteFile(files, Join(SlotDir(e.path), p), c) # files
    /\ FinishShare("edit", e.path, <<RelArg(p)>>, NoOpts,
                   [fs |-> WriteFile(files, Join(SlotDir(e.path), p), c), err |-> NoErr,
                    out |-> {}, tried |-> <<>>])

\* the directories after a switch: tree/ made, every worktree's directory
\* (the untracked files in it too) at the path the switch left it at, and an
\* empty directory for a worktree git worktree add created
Relocated(f, oldDisk, newDisk, newTreeDir) ==
  LET NewPath(q) ==
        IF \E e \in oldDisk : q \in Under(f, SlotDir(e.path))
          THEN LET e == CHOOSE x \in oldDisk : q \in Under(f, SlotDir(x.path))
                   n == CHOOSE x \in newDisk : x.wt = e.wt
               IN  SlotDir(n.path) \o SubSeq(q, Len(SlotDir(e.path)) + 1, Len(q))
          ELSE q
      kept == {NewPath(q) : q \in DOMAIN f}
      made == (IF newTreeDir THEN {BareDir \o <<"tree">>} ELSE {})
                \cup {SlotDir(x.path) : x \in newDisk}
  IN  [p \in kept \cup made |->
         IF p \in kept THEN f[CHOOSE q \in DOMAIN f : NewPath(q) = p]
                       ELSE DirNode("0755")]

\* what a switch leaves: r is what switchRunE returns, the untracked files
\* go with the directories
FinishSwitchShare(targetCommitish, restore, r) ==
  /\ steps < MaxSteps
  /\ ~Settled
  /\ steps' = steps + 1
  /\ disk' = r.st.disk
  /\ reg' = r.st.reg
  /\ treeDir' = r.st.treeDir
  /\ files' = Relocated(files, disk, r.st.disk, r.st.treeDir)
  /\ last' = [op |-> "switch", arg |-> targetCommitish, cwd |-> BareRoot,
               err |-> r.err, log |-> r.st.log,
               pre |-> [disk |-> disk, reg |-> reg, treeDir |-> treeDir]]
  /\ run' = [NoRun EXCEPT !.restore = restore, !.fs = files]
  /\ UNCHANGED scen

\* switch started in the bare root, every call let to succeed; restore is
\* the value the caller set the flag "restore" to
SwitchShare ==
  \E targetCommitish \in {Main, FeatDash}, restore \in BOOLEAN :
    FinishSwitchShare(targetCommitish, restore,
                      switchRunE(Cur, BareRoot, targetCommitish,
                                 [fail |-> "none", vacate |-> MoveOk, occupy |-> MoveOk,
                                  add |-> TRUE]))

NextShare ==
  \/ PersistAdd
  \/ PersistList
  \/ PersistRemove
  \/ Restore
  \/ Edit
  \/ SwitchShare

SpecShare == InitShare /\ [][NextShare]_vars

(***************************************************************************)
(* The state machine of restore alone, with the destination override --to  *)
(* and started below the root of a worktree as well.                       *)
(***************************************************************************)
\* bound on the restore invocations of one behaviour
MaxRestores == 2

\* the values of --to: not given, a relative path with a missing parent
\* directory, and an absolute path into the workspace
ToRel == RelArg(<<"b", "a">>)
ToAbs == [abs |-> TRUE, comps |-> SlotDir(workspacePath) \o <<"b">>]
RestoreTos == {NoArg, ToRel, ToAbs}

\* the paths given to restore: a top-level file, a file in a directory, and
\* a file that no store of the model holds
RestorePaths == {RelArg(<<"a">>), RelArg(<<"d", "a">>), RelArg(<<"d", "b">>)}

\* a directory below the root of a worktree: the slot and the path from its
\* root to the directory
Below(slot, sub) == [area |-> slot.area, name |-> slot.name, sub |-> sub]

\* where restore is started: outside any repository, in the bare root, in
\* the directory d of the workspace, in the root of the parked worktree
RestoreCwds ==
  {Below(NoPath, <<>>), Below(BareRoot, <<>>), Below(workspacePath, <<"d">>),
   Below(TreePath(FeatDash), <<>>)}

\* the stores a behaviour starts from: no shared/; an empty shared/; a file
\* named d; a file a and a directory d with a file a, persisted from a
\* worktree
RestoreStore(store) ==
  CASE store = "absent" -> [s \in {} |-> s]
    [] store = "empty" -> [s \in {<<>>} |-> DirNode("0755")]
    [] store = "file" ->
         [s \in {<<>>, <<"d">>} |->
            IF s = <<"d">> THEN FileNode("v1", "0644") ELSE DirNode("0755")]
    [] OTHER ->
         [s \in {<<>>, <<"a">>, <<"d">>, <<"d", "a">>} |->
            IF s = <<"a">> THEN FileNode("v2", "0600")
            ELSE IF s = <<"d", "a">> THEN FileNode("v1", "0644")
            ELSE DirNode("0755")]

InitRestore ==
  \E store \in {"absent", "empty", "file", "full"} :
    /\ disk = LayoutDisk("switched")
    /\ reg = LayoutReg("switched")
    /\ treeDir = TRUE
    /\ files = BaseFs
                 @@ Planted(SlotDir(workspacePath), WorkspaceFiles("0600"))
                 @@ Planted(BareDir, [s \in {<<"tree">>} |-> DirNode("0755")])
                 @@ Planted(SlotDir(TreePath(FeatDash)), ParkedFiles("none"))
                 @@ Planted(SharedDir, RestoreStore(store))
    /\ last = [op |-> "init", arg |-> <<>>, cwd |-> BareRoot, err |-> NoErr,
                log |-> <<>>, pre |-> [disk |-> disk, reg |-> reg, treeDir |-> treeDir]]
    /\ run = [NoRun EXCEPT !.fs = files]
    /\ scen = OffScript
    /\ steps = 0

\* the invocations of restore tried from cwd.  Inside a worktree: every path
\* with every flag, and --all with every flag.  Everywhere: the two usage
\* errors, and elsewhere one well-formed invocation of each kind.
RestoreToCallsFor(cwd) ==
  {[args |-> <<RelArg(<<"a">>)>>, opts |-> [NoOpts EXCEPT !.all = TRUE]],
   [args |-> <<>>, opts |-> NoOpts]}
  \cup (IF InWorktree(cwd)
          THEN {[args |-> IF a THEN <<>> ELSE <<p>>,
                 opts |-> [link |-> l, to |-> t, force |-> f, all |-> a]] :
                  p \in RestorePaths, t \in RestoreTos, l \in BOOLEAN, f \in BOOLEAN,
                  a \in BOOLEAN}
          ELSE {[args |-> <<RelArg(<<"a">>)>>, opts |-> NoOpts],
                [args |-> <<>>, opts |-> [NoOpts EXCEPT !.all = TRUE]]})

\* r is what restoreRunE returns: [fs, err, tried]
FinishRestore(cwd, call, r) ==
  /\ steps < MaxRestores
  /\ ~Settled
  /\ steps' = steps + 1
  /\ files' = r.fs
  /\ last' = [op |-> "restore", arg |-> <<>>, cwd |-> cwd, err |-> r.err, log |-> <<>>,
               pre |-> [disk |-> disk, reg |-> reg, treeDir |-> treeDir]]
  /\ run' = [args |-> call.args, opts |-> call.opts, restore |-> FALSE, fs |-> files,
              out |-> {}, tried |-> r.tried]
  /\ UNCHANGED <<disk, reg, treeDir, scen>>

RestoreTo ==
  \E cwd \in RestoreCwds :
    \E call \in RestoreToCallsFor(cwd) :
    FinishRestore(cwd, call, restoreRunE(files, cwd, call.args, call.opts))

NextRestore == RestoreTo

SpecRestore == InitRestore /\ [][NextRestore]_vars

(***************************************************************************)
(* restore --all alone, the destination override --to taking also a path   *)
(* that leaves the worktree for the store.                                 *)
(***************************************************************************)
\* --to ../shared, which from the workspace is the store itself

RestoreAllCalls ==
  {[args |-> <<>>, opts |-> [link |-> l, to |-> t, force |-> f, all |-> TRUE]] :
     t \in RestoreTos \cup {RelArg(<<"..", "shared">>)}, l \in BOOLEAN, f \in BOOLEAN}

RestoreAll ==
  \E cwd \in {c \in RestoreCwds : InWorktree(c)} :
    \E call \in RestoreAllCalls :
    FinishRestore(cwd, call, restoreRunE(files, cwd, call.args, call.opts))

NextRestoreAll == RestoreAll

SpecRestoreAll == InitRestore /\ [][NextRestoreAll]_vars

(***************************************************************************)
(* persist add and persist remove with path arguments of every form: a     *)
(* relative path, ".", "..", a path that climbs out of the worktree, and   *)
(* an absolute path.                                                       *)
(***************************************************************************)
\* the arguments that are no plain relative path
AnyPathArgs ==
  {RelArg(<<"a">>), RelArg(<<"d", "a">>), RelArg(<<".">>), RelArg(<<"..">>),
   RelArg(<<"..", "..", "workspace", "a">>),
   [abs |-> TRUE, comps |-> SlotDir(workspacePath) \o <<"a">>]}

PersistAddAny ==
  \E cwd \in {e.path : e \in disk} :
    \E targetPath \in AnyPathArgs :
    FinishShare("add", cwd, <<targetPath>>, NoOpts,
                persistAddRunE(files, cwd, targetPath) @@ [out |-> {}, tried |-> <<>>])

\* args[0] of persist remove is joined to shared/ as it is, absolute or not
PersistRemoveAny ==
  \E cwd \in {e.path : e \in disk} :
    \E targetPath \in AnyPathArgs :
    FinishShare("remove", cwd, <<targetPath>>, NoOpts,
                persistRemoveRunE(files, cwd, targetPath) @@ [out |-> {}, tried |-> <<>>])

NextPaths == PersistAddAny \/ PersistRemoveAny

SpecPaths == InitShare /\ [][NextPaths]_vars

(***************************************************************************)
(* Switch after switch on a fresh repository, every external call let to   *)
(* succeed, each started where the one before reported success.            *)
(***************************************************************************)
\* bound on the switches of one behaviour
MaxSwitches == 4

\* every call does what it can
AllOk == [fail |-> "none", vacate |-> MoveOk, occupy |-> MoveOk, add |-> TRUE]

FinishSwitches(targetCommitish, cwd, r) ==
  /\ disk' = r.st.disk
  /\ reg' = r.st.reg
  /\ treeDir' = r.st.treeDir
  /\ last' = [op |-> "switch", arg |-> targetCommitish, cwd |-> cwd, err |-> r.err,
               log |-> r.st.log,
               pre |-> [disk |-> disk, reg |-> reg, treeDir |-> treeDir]]
  /\ steps' = steps + 1
  /\ UNCHANGED <<scen, files, run>>

\* switch <branch|commit> from the bare root or from the workspace
SwitchAgain ==
  /\ steps < MaxSwitches
  /\ last.err = NoErr
  /\ \E targetCommitish \in Idents, cwd \in {BareRoot, workspacePath} \cap Cwds :
       FinishSwitches(targetCommitish, cwd, switchRunE(Cur, cwd, targetCommitish, AllOk))

NextSwitches == SwitchAgain

SpecSwitches == Init /\ [][NextSwitches]_vars

(***************************************************************************)
(* sanitizeBranchName and detectLocation on inputs of their own:           *)
(* sanitizeBranchName on every name of up to MaxLen bytes, applied up to   *)
(* MaxApply times in a row, and detectLocation in every directory of a     *)
(* machine that holds the bare repository r with its worktrees, ordinary   *)
(* clones, and directories outside any repository.                         *)
(***************************************************************************)
\* bounds on the bytes of a name and on the applications in a row
MaxLen == 3
MaxApply == 2

\* the bytes names are made of: ASCII, the two bytes of U+00E9, a stray byte
NameBytes == {"f", "/", "-", "C3", "A9", "FF"}
BranchNames == UNION {[1..n -> NameBytes] : n \in 0..MaxLen}

\* bound on the directory levels below the root of a worktree or clone
MaxDepth == 2

\* the worktrees git has registered, each with the git directory rev-parse
\* prints inside it: five of the bare repository r (the workspace, one
\* beside it, a parked one, one elsewhere below r, one outside r) and one
\* of the ordinary clone c
LinkedWorktrees ==
  {[root |-> BareDir \o <<"workspace">>, gitDir |-> BareDir \o <<"worktrees", "workspace">>],
   [root |-> BareDir \o <<"workspace-old">>,
    gitDir |-> BareDir \o <<"worktrees", "workspace-old">>],
   [root |-> BareDir \o <<"tree", "f-x">>, gitDir |-> BareDir \o <<"worktrees", "f-x">>],
   [root |-> BareDir \o <<"other">>, gitDir |-> BareDir \o <<"worktrees", "other">>],
   [root |-> <<"x">>, gitDir |-> BareDir \o <<"worktrees", "x">>],
   [root |-> <<"w">>, gitDir |-> <<"c", ".git", "worktrees", "w">>]}

\* the ordinary clones: c, and two below a directory named worktrees
Clones == {<<"c">>, <<"h", "worktrees", "p">>, <<"worktrees", "q">>}

\* p is q or a directory above it
IsAbove(p, q) == Len(p) <= Len(q) /\ SubSeq(q, 1, Len(p)) = p

\* the directories below a worktree or clone, and the directories of r that
\* are in no worktree
SubDirs == UNION {[1..n -> {"d", "tree", "workspace"}] : n \in 0..MaxDepth}
BareSubDirs == {<<>>, <<"tree">>, <<"shared">>, <<"hooks">>, <<"worktrees", "workspace">>}

\* the directories a command is started in
Dirs ==
  {w.root \o sub : w \in LinkedWorktrees, sub \in SubDirs}
  \cup {BareDir \o sub : sub \in BareSubDirs}
  \cup {c \o sub : c \in Clones, sub \in SubDirs}
  \cup {<<>>, <<"tmp">>, <<"h">>, <<"h", "worktrees">>}

\* git rev-parse --git-dir in cwd: the git directory of the worktree cwd is
\* in; in the bare repository "." where cwd is a git directory itself (r
\* and r/worktrees/<name>) and the absolute path of r in the directories
\* just below r; ".git" or its absolute path in a clone; failure outside
GitDirOf(cwd) ==
  IF \E w \in LinkedWorktrees : IsAbove(w.root, cwd)
    THEN [ok |-> TRUE, abs |-> TRUE,
          comps |-> (CHOOSE w \in LinkedWorktrees : IsAbove(w.root, cwd)).gitDir]
  ELSE IF IsAbove(BareDir, cwd)
    THEN [ok |-> TRUE, abs |-> Len(cwd) = Len(BareDir) + 1,
          comps |-> IF Len(cwd) = Len(BareDir) + 1 THEN BareDir ELSE <<".">>]
  ELSE IF \E c \in Clones : IsAbove(c, cwd)
    THEN [ok |-> TRUE, abs |-> cwd \notin Clones,
          comps |-> IF cwd \in Clones THEN <<".git">>
                    ELSE (CHOOSE c \in Clones : IsAbove(c, cwd)) \o <<".git">>]
  ELSE [ok |-> FALSE, abs |-> FALSE, comps |-> <<>>]

\* git rev-parse --is-bare-repository in cwd prints true
IsBareRepository(cwd) ==
  /\ IsAbove(BareDir, cwd)
  /\ ~\E w \in LinkedWorktrees : IsAbove(w.root, cwd)

\* strings.LastIndex(gitDir, "/worktrees/"), as the number of components
\* before the match; -1 without a match
LastIndexWorktrees(gitDir) ==
  LET at == {i \in 1..(Len(gitDir.comps) - 1) :
               gitDir.comps[i] = "worktrees" /\ (gitDir.abs \/ i > 1)}
  IN  IF at = {} THEN -1 ELSE (CHOOSE i \in at : \A j \in at : j <= i) - 1

\* strings.HasPrefix(relPath, "workspace"), for the first components there
\* are
BeginsWithWorkspace(relPath) == relPath[1] \in {"workspace", "workspace-old"}

\* detectLocation in the directory cwd, from the two outputs of git
detectLocationIn(cwd, gitDir, isBare) ==
  IF ~gitDir.ok
    THEN [bareRepoRoot |-> <<>>, location |-> "", err |-> <<"not in a git repository">>]
  ELSE IF isBare
    THEN [bareRepoRoot |-> cwd, location |-> "bare-root", err |-> NoErr]
  ELSE IF ~\E i \in 1..Len(gitDir.comps) : gitDir.comps[i] = "worktrees"
    THEN [bareRepoRoot |-> <<>>, location |-> "",
          err |-> <<"not in a bare repository or valid worktree">>]
  ELSE IF LastIndexWorktrees(gitDir) = -1
    THEN [bareRepoRoot |-> <<>>, location |-> "",
          err |-> <<"unexpected git directory format">>]
  ELSE IF LastIndexWorktrees(gitDir) = 0
    THEN [bareRepoRoot |-> <<>>, location |-> "",
          err |-> <<"error determining relative path">>]
  ELSE IF /\ Len(Rel(SubSeq(gitDir.comps, 1, LastIndexWorktrees(gitDir)), cwd)) >= 2
          /\ Rel(SubSeq(gitDir.comps, 1, LastIndexWorktrees(gitDir)), cwd)[1] = "tree"
    THEN [bareRepoRoot |-> <<>>, location |-> "",
          err |-> <<"cannot run switch from inside tree/<branch> directory">>]
  ELSE IF BeginsWithWorkspace(Rel(SubSeq(gitDir.comps, 1, LastIndexWorktrees(gitDir)), cwd))
    THEN [bareRepoRoot |-> SubSeq(gitDir.comps, 1, LastIndexWorktrees(gitDir)),
          location |-> "workspace", err |-> NoErr]
  ELSE [bareRepoRoot |-> SubSeq(gitDir.comps, 1, LastIndexWorktrees(gitDir)),
        location |-> "worktree", err |-> NoErr]

\* a behaviour starts with a name or a directory picked
InitFunctions ==
  /\ disk = {}
  /\ reg = EmptyReg
  /\ treeDir = FALSE
  /\ last = [op |-> "init", arg |-> <<>>, cwd |-> BareRoot, err |-> NoErr,
              log |-> <<>>, pre |-> [disk |-> {}, reg |-> EmptyReg, treeDir |-> FALSE]]
  /\ scen = 0
  /\ files = BaseFs
  /\ steps = 0
  /\ \E x \in ({"name"} \X BranchNames) \cup ({"cwd"} \X Dirs) :
       run = [fn |-> x[1], in |-> x[2], arg |-> x[2], out |-> <<>>, n |-> 0]

\* sanitizeBranchName(name), then sanitizeBranchName of the result
Sanitize ==
  /\ run.fn \in {"name", "sanitizeBranchName"}
  /\ run.n < MaxApply
  /\ run' = [fn |-> "sanitizeBranchName", in |-> run.in,
              arg |-> IF run.n = 0 THEN run.in ELSE run.out,
              out |-> sanitizeBranchName(IF run.n = 0 THEN run.in ELSE run.out),
              n |-> run.n + 1]
  /\ UNCHANGED <<disk, reg, treeDir, last, scen, files, steps>>

\* detectLocation() with the process in the directory picked
Locate ==
  /\ run.fn = "cwd"
  /\ run' = [fn |-> "detectLocation", in |-> run.in, arg |-> run.in,
              out |-> detectLocationIn(run.in, GitDirOf(run.in), IsBareRepository(run.in)),
              n |-> 1]
  /\ UNCHANGED <<disk, reg, treeDir, last, scen, files, steps>>

NextFunctions == Sanitize \/ Locate

SpecFunctions == InitFunctions /\ [][NextFunctions]_vars

(***************************************************************************)
(* Vocabulary of the properties.                                           *)
(***************************************************************************)
\* the state after the last invocation and the state before it
Now == [disk |-> disk, reg |-> reg, treeDir |-> treeDir]
Pre == last.pre

LastSwitch == last.op = "switch"
Succeeded == last.err = NoErr

\* the error chain ends in moveWorktree's moved-but-not-repaired message
RepairFailure(err) ==
  err # NoErr /\ err[Len(err)] = "moved directory but failed to repair git metadata"

\* the invocation got past detectLocation, chdir, getCurrentBranch and MkdirAll
PastSetup == Len(last.log) > 0 /\ last.log[1].call = "mkdir"

\* the calls of the last invocation, by kind
Calls(kind) == {i \in 1..Len(last.log) : last.log[i].call = kind}

\* a slot directory exists iff a live registration points at it, and it holds
\* exactly the registered worktree
Consistent(st) ==
  /\ \A e \in st.disk : e.wt \in DOMAIN st.reg /\ st.reg[e.wt].path = e.path
  /\ \A w \in DOMAIN st.reg : [path |-> st.reg[w].path, wt |-> w] \in st.disk

\* C1: whenever switch(T) reports success the workspace holds a worktree
\* checked out to T, and a different worktree that was in the workspace before
\* is now at tree/<sanitize(its previous branch)>.
C1_SuccessMeansTargetActive ==
  (LastSwitch /\ Succeeded) =>
    /\ \E w \in WtAt(Now, workspacePath) : reg[w].head.ref = last.arg
    /\ \A w \in WtAt(Pre, workspacePath) :
         w \notin WtAt(Now, workspacePath) =>
           w \in WtAt(Now, TreePath(sanitizeBranchName(Pre.reg[w].head.ref)))

\* C2: every switch ends in success, or in a failure that changed no slot
\* directory and no registration, or in the flagged repair failure; no
\* ordinary error is returned once a worktree has been moved.
C2_ThreeTerminalStates ==
  LastSwitch =>
    \/ Succeeded
    \/ RepairFailure(last.err)
    \/ (disk = Pre.disk /\ reg = Pre.reg)

C4_ConsistentOnReturn ==
  (LastSwitch /\ Consistent(Pre) /\ ~RepairFailure(last.err)) => Consistent(Now)

\* C5: a switch started inside a parked slot fails with the location error
\* before any call that changes the filesystem or the registry.
C5_ParkedCwdRejectedFirst ==
  (LastSwitch /\ last.cwd.area = "tree") =>
    /\ last.err = <<"cannot run switch from inside tree/<branch> directory">>
    /\ last.log = <<>>
    /\ Now = Pre

C5_Witness ==
  /\ LastSwitch /\ last.cwd.area = "tree"
  /\ ~Exists(Pre, workspacePath)
  /\ Exists(Pre, TreePath(sanitizeBranchName(last.arg)))

\* C6: from an empty repository layout, switch main, switch feature-x,
\* switch main, each succeeding, give in turn: main created in the workspace;
\* main parked at tree/main and feature-x created in the workspace; the parked
\* main worktree moved back (no creation) and feature-x parked.
MainWt == [ref |-> Main, n |-> 1]
FeatWt == [ref |-> FeatDash, n |-> 1]
MovedBy(i, src, dst) ==
  /\ last.log[i].src = src /\ last.log[i].dst = dst
  /\ \/ last.log[i].call = "move" /\ last.log[i].ok
     \/ last.log[i].call = "rename" /\ last.log[i].ok

C7_MoveOrder ==
  \A i \in 1..Len(last.log) :
    LET ev == last.log[i]
        isLast == i = Len(last.log)
    IN  /\ ev.call = "rename" =>
             /\ i > 1 /\ last.log[i - 1].call = "move" /\ ~last.log[i - 1].ok
             /\ last.log[i - 1].src = ev.src /\ last.log[i - 1].dst = ev.dst
        /\ ev.call = "repair" =>
             i > 1 /\ last.log[i - 1].call = "rename" /\ last.log[i - 1].ok
        /\ (ev.call = "move" /\ ev.ok /\ ~isLast) =>
             last.log[i + 1].call \notin {"rename", "repair"}
        /\ (ev.call = "move" /\ ~ev.ok) =>
             ~isLast /\ last.log[i + 1].call = "rename"
        /\ (ev.call = "rename" /\ ev.ok) =>
             ~isLast /\ last.log[i + 1].call = "repair"
        /\ (ev.call = "rename" /\ ~ev.ok) =>
             /\ isLast
             /\ last.err # NoErr
             /\ last.err[Len(last.err)] = "failed to move directory"
             /\ Exists(Now, ev.src)

C7_Witness ==
  /\ LastSwitch
  /\ \E i \in Calls("rename") : ~last.log[i].ok
  /\ \E i \in Calls("repair") : last.log[i].ok

\* C8: the switch returns the moved-but-not-repaired error exactly when a
\* repair failed after a successful rename; no other return of the switch
\* leaves a worktree's directory at the destination of one of its moves while
\* the registry still records it at the source.
MovedUnregistered ==
  \E i \in Calls("move") : \E w \in WtAt(Now, last.log[i].dst) :
    w \in DOMAIN reg /\ reg[w].path = last.log[i].src

C8_RepairFailureFlagged ==
  LastSwitch =>
    /\ RepairFailure(last.err) <=>
         \E i \in Calls("repair") : ~last.log[i].ok /\ last.log[i - 1].ok
    /\ (\E i \in Calls("rename") : ~last.log[i].ok) => ~RepairFailure(last.err)
    /\ MovedUnregistered => RepairFailure(last.err)

\* C9: when the workspace's branch already has a parked slot, the switch
\* fails with the collision error without calling moveWorktree or git
\* worktree add: the parked slot and the workspace are as before.
C9_CollisionLeavesBoth ==
  (/\ LastSwitch /\ PastSetup
   /\ Exists(Pre, workspacePath)
   /\ getCurrentBranch(Pre, workspacePath) # <<>>
   /\ Exists(Pre, TreePath(sanitizeBranchName(getCurrentBranch(Pre, workspacePath)))))
  =>
    /\ last.err = <<"tree/<current> already exists, this shouldn't happen">>
    /\ Len(last.log) = 1
    /\ disk = Pre.disk /\ reg = Pre.reg

C9_Witness ==
  /\ LastSwitch
  /\ last.err = <<"tree/<current> already exists, this shouldn't happen">>
  /\ Exists(Now, workspacePath)

\* C10: with a detached worktree in the workspace the switch fails with the
\* detached-HEAD error, moves nothing and creates nothing.
C10_DetachedWorkspaceStays ==
  (/\ LastSwitch /\ PastSetup
   /\ Exists(Pre, workspacePath)
   /\ getCurrentBranch(Pre, workspacePath) = <<>>)
  =>
    /\ last.err = <<"workspace exists but is in detached HEAD state">>
    /\ Calls("move") \cup Calls("rename") \cup Calls("add") = {}
    /\ disk = Pre.disk /\ reg = Pre.reg

C10_Witness ==
  /\ LastSwitch
  /\ last.err = <<"workspace exists but is in detached HEAD state">>
  /\ \E w \in WtAt(Now, workspacePath) : reg[w].head.kind = "detached"

(***************************************************************************)
(* Vocabulary of the properties of persist and restore.                    *)
(***************************************************************************)
\* the filesystem the last invocation started from, and the slots then
PreFs == run.fs

LastOp(op) == last.op = op
Failed(msg) == last.err # NoErr /\ last.err[1] = msg

\* the path argument of the last invocation, the root of the worktree it ran
\* in, and the argument's place in that worktree and in shared/
ArgPath == run.args[1].comps
RanInWorktree == InWorktree(last.cwd)
WorktreeRoot == SlotDir(last.cwd)
InTree(rel) == Join(WorktreeRoot, rel)
InShared(rel) == Join(SharedDir, rel)

\* rel is an entry of the store: persist list prints it
Listed(f, rel) == rel \in persistListRunE(f, workspacePath).out

\* what is at path and below it, as seen through the links on the way to
\* path: [relative path |-> node]; nothing when there is no such entry
TreeAt(f, path) ==
  LET w == Stat(f, path)
  IN  IF Found(w)
        THEN [s \in {SubSeq(q, Len(w.path) + 1, Len(q)) : q \in Under(f, w.path)} |->
                f[w.path \o s]]
        ELSE [s \in {} |-> s]

\* the store: everything below shared/
Store(f) == [q \in Under(f, SharedDir) |-> f[q]]

\* everything that is not below shared/
Outside(f) == [q \in DOMAIN f \ Under(f, SharedDir) |-> f[q]]

\* the errors that report a precondition not met
PreconditionErrors ==
  {"not in a git repository",
   "cannot run persist from bare repository",
   "cannot run switch from inside tree/<branch> directory",
   "workspace exists but is in detached HEAD state",
   "tree/<current> already exists, this shouldn't happen",
   "file or directory does not exist",
   "file already exists in shared storage",
   "file not found in shared storage",
   "no persisted files found",
   "file already exists"}

\* C11: a precondition failure of switch, persist add, persist remove or
\* restore (not in a repository, wrong location, detached workspace,
\* parked-slot collision, target already exists, source missing, entry not
\* persisted) leaves every file and directory under the bare repository, the
\* tree/ directory included, and every registration as it was.
C11_PreconditionFailureChangesNothing ==
  (last.err # NoErr /\ last.err[1] \in PreconditionErrors) =>
    /\ files = PreFs
    /\ Now = Pre

\* the switch got to its occupying step; tree/<sanitize(T)> is there then
OccupyReached ==
  /\ LastSwitch /\ PastSetup
  /\ ~(last.err # NoErr /\ last.err[1] \in
          {"workspace exists but is in detached HEAD state",
           "tree/<current> already exists, this shouldn't happen",
           "error moving workspace to tree"})

ParkedAtOccupy ==
  LET targetTreePath == TreePath(sanitizeBranchName(last.arg))
  IN  \/ Exists(Pre, targetTreePath)
      \/ \E i \in 1..Len(last.log) : MovedBy(i, workspacePath, targetTreePath)

\* C12: once the vacating step is over, the switch moves tree/<sanitize(T)>
\* into the workspace exactly when that directory exists then (it was there
\* before, or the vacating step has just put the workspace there), and calls
\* git worktree add exactly when it does not; never both.
C12_MoveIffParked ==
  LET targetTreePath == TreePath(sanitizeBranchName(last.arg))
      moves == {i \in Calls("move") :
                  last.log[i].src = targetTreePath /\ last.log[i].dst = workspacePath}
  IN  /\ OccupyReached =>
           /\ ParkedAtOccupy <=> moves # {}
           /\ ~ParkedAtOccupy <=> Calls("add") # {}
           /\ ~(moves # {} /\ Calls("add") # {})
      /\ (LastSwitch /\ ~OccupyReached) =>
           (Calls("add") = {} /\
            \A i \in Calls("move") : last.log[i].src = workspacePath)

C12_Witness ==
  LET targetTreePath == TreePath(sanitizeBranchName(last.arg))
  IN  /\ LastSwitch /\ Succeeded
      /\ ~Exists(Pre, targetTreePath)
      /\ \E i \in 1..Len(last.log) : MovedBy(i, workspacePath, targetTreePath)
      /\ \E j \in 1..Len(last.log) : MovedBy(j, targetTreePath, workspacePath)

\* C13: a switch asked to restore and reporting success leaves every
\* top-level entry of shared/ present in the workspace.
C13_RestoreOnSwitch ==
  (LastSwitch /\ run.restore /\ Succeeded /\ IsDir(files, SharedDir)) =>
    \A i \in 1..Len(ReadDir(files, SharedDir)) :
      Found(Lstat(files, Join(SlotDir(workspacePath), <<ReadDir(files, SharedDir)[i]>>)))

\* C14: persist add P of a path that is not in the store and whose source
\* exists succeeds, and list then prints P; persist add P of a path that is in
\* the store (a second add with no remove in between) fails with the
\* already-exists error and leaves the store, and everything else, as it was.
\* Stated for the paths none of whose parent directories is stored as a
\* regular file: below such a file no entry can be made.
C14_AddThenListed ==
  (LastOp("add") /\ RanInWorktree /\ Found(Stat(PreFs, InTree(ArgPath)))) =>
    IF Listed(PreFs, ArgPath)
      THEN Failed("file already exists in shared storage") /\ files = PreFs
      ELSE Stat(PreFs, InShared(ArgPath)).status # "enotdir" =>
             (Succeeded /\ Listed(files, ArgPath))

\* C15: persist add of a path whose source does not exist fails with the
\* does-not-exist error, whether or not the store has the entry, and changes
\* nothing: shared/ is not created.
C15_MissingSourceRejected ==
  (LastOp("add") /\ RanInWorktree /\ ~Found(Stat(PreFs, InTree(ArgPath)))) =>
    /\ Failed("file or directory does not exist")
    /\ files = PreFs

\* rel is top or below it
IsBelow(rel, top) == Len(rel) >= Len(top) /\ SubSeq(rel, 1, Len(top)) = top

\* C16: persist remove E of a store entry succeeds, after it list prints
\* neither E nor anything below E, and every other entry is as before;
\* persist remove of a path that is not in the store fails with the not-found
\* error and leaves the store as it was.
C16_RemoveEntry ==
  (LastOp("remove") /\ RanInWorktree) =>
    IF Listed(PreFs, ArgPath)
      THEN /\ Succeeded
           /\ persistListRunE(files, workspacePath).out =
                {rel \in persistListRunE(PreFs, workspacePath).out : ~IsBelow(rel, ArgPath)}
           /\ \A q \in Under(files, SharedDir) : files[q] = PreFs[q]
           /\ Outside(files) = Outside(PreFs)
      ELSE /\ Failed("file not found in shared storage")
           /\ files = PreFs

\* restore of one path, run in a worktree
RestoredOne == LastOp("restore") /\ RanInWorktree /\ ~run.opts.all /\ Len(run.args) = 1

\* C17: a persist add that succeeds stores the source as it is (for a file
\* its content and permission bits, for a directory its whole tree), and a
\* copy-mode restore that succeeds to a destination that does not exist
\* leaves there a copy of the store entry that is no link: a regular file
\* with the entry's content and permission bits, or the entry's whole tree.
C17_RoundTrip ==
  /\ (LastOp("add") /\ RanInWorktree /\ Succeeded) =>
        TreeAt(files, InShared(ArgPath)) = TreeAt(PreFs, InTree(ArgPath))
  /\ (RestoredOne /\ ~run.opts.link /\ Succeeded /\ ~Found(Lstat(PreFs, InTree(ArgPath)))) =>
        /\ Found(Lstat(files, InTree(ArgPath)))
        /\ files[Lstat(files, InTree(ArgPath)).path].kind # "link"
        /\ TreeAt(files, InTree(ArgPath)) = TreeAt(PreFs, InShared(ArgPath))
        /\ TreeAt(PreFs, InShared(ArgPath)) = TreeAt(files, InShared(ArgPath))

C17_Witness ==
  /\ RestoredOne /\ ~run.opts.link /\ Succeeded
  /\ last.cwd = TreePath(FeatDash)
  /\ ~Found(Lstat(PreFs, InTree(ArgPath)))
  /\ ArgPath = <<"a">>
  /\ files[InTree(ArgPath)] = FileNode("v1", "0600")
  /\ files[InTree(ArgPath)] = files[Join(SlotDir(workspacePath), ArgPath)]

\* C18: a restore (copying or linking) whose destination exists fails
\* without --force with the already-exists error and changes nothing; with
\* --force it succeeds and the destination then is the store entry alone, a
\* copy of it or a link to it, with nothing of what was there before.
C18_ForceReplaces ==
  (/\ RestoredOne
   /\ Found(Stat(PreFs, InShared(ArgPath)))
   /\ Found(Stat(PreFs, InTree(ArgPath))))
  =>
    IF ~run.opts.force
      THEN Failed("file already exists") /\ files = PreFs
      ELSE /\ Succeeded
           /\ TreeAt(files, InTree(ArgPath)) = TreeAt(PreFs, InShared(ArgPath))
           /\ files[Lstat(files, InTree(ArgPath)).path].kind = "link" <=> run.opts.link

\* the symbolic links of a filesystem
Links(f) == {q \in DOMAIN f : f[q].kind = "link"}

\* C19: a successful link-mode restore makes one symbolic link, at the
\* destination, and no other; its target is a relative path, and followed
\* from the directory the link is in it is the store entry, so that the
\* destination reads as the entry does.
C19_OneRelativeLink ==
  (RestoredOne /\ run.opts.link /\ Succeeded) =>
    LET w == Lstat(files, InTree(ArgPath))
    IN  /\ Found(w)
        /\ files[w.path].kind = "link"
        /\ ~files[w.path].target.abs
        /\ {q \in Links(files) : q \notin Links(PreFs) \/ files[q] # PreFs[q]} \subseteq {w.path}
        /\ Found(Stat(files, InShared(ArgPath)))
        /\ Walk(files, Dir(w.path), files[w.path].target.comps, TRUE, MaxHops) =
             Stat(files, InShared(ArgPath))
        /\ TreeAt(files, InTree(ArgPath)) = TreeAt(PreFs, InShared(ArgPath))

\* the links in the worktrees, each with the place in shared/ of the same
\* relative path: <<link, store entry>>
WorktreeLinks(f, d) ==
  {<<q, Join(SharedDir, SubSeq(q, Len(SlotDir(e.path)) + 1, Len(q)))>> :
     <<q, e>> \in {x \in Links(f) \X d : x[1] \in Under(f, SlotDir(x[2].path))}}

\* an edit of a file that is in the worktree itself, not reached through a
\* link
EditedInPlace ==
  /\ LastOp("edit")
  /\ Stat(PreFs, InTree(ArgPath)).path = InTree(ArgPath)

\* C20: what a copying restore left is a snapshot: persist add and persist
\* remove change nothing outside shared/, and writing a file of a worktree
\* changes nothing in shared/.  What a linking restore left is a live alias:
\* in every state, reading a link of a worktree gives what the store entry
\* of the same relative path holds, nothing when there is no such entry.
C20_SnapshotAndAlias ==
  /\ (LastOp("add") \/ LastOp("remove")) => Outside(files) = Outside(PreFs)
  /\ EditedInPlace => Store(files) = Store(PreFs)
  /\ \A pr \in WorktreeLinks(files, disk) : TreeAt(files, pr[1]) = TreeAt(files, pr[2])

(***************************************************************************)
(* restore --all, the arguments of restore, and the destination.           *)
(***************************************************************************)
\* restore --all run in a worktree with shared/ there: restoreAllFiles ran
RestoredAll ==
  /\ LastOp("restore") /\ RanInWorktree
  /\ run.opts.all /\ run.args = <<>>
  /\ ~IsNotExist(Stat(PreFs, SharedDir))

\* the top-level entries of the store, as relative paths in walk order
TopLevel(f) == [i \in 1..Len(ReadDir(f, SharedDir)) |-> <<ReadDir(f, SharedDir)[i]>>]

\* the entries of restore --all that restoreFile reported as restored
Restored == {i \in 1..Len(run.tried) : run.tried[i].err = NoErr}

\* the destination restoreFile computes for the entry at rel
Destination(rel) ==
  IF run.opts.to = NoArg THEN InTree(rel)
  ELSE IF run.opts.to.abs THEN run.opts.to.comps
  ELSE Join(WorktreeRoot, run.opts.to.comps)

\* the paths whose entry differs between two filesystems
Changed(f, g) ==
  {q \in DOMAIN f \cup DOMAIN g : q \notin DOMAIN f \/ q \notin DOMAIN g \/ f[q] # g[q]}

\* C21: restore --all hands every top-level store entry to the single-entry
\* restore whether or not earlier entries failed, every entry reported as
\* restored is at its destination, equal to the store entry, when the
\* command returns, and the command returns an error exactly when an entry
\* failed.
C21_AllAttempted ==
  RestoredAll =>
    /\ \A k \in 1..Len(TopLevel(PreFs)) :
         \E i \in 1..Len(run.tried) : run.tried[i].path = TopLevel(PreFs)[k]
    /\ \A i \in Restored :
         TreeAt(files, Destination(run.tried[i].path))
           = TreeAt(PreFs, InShared(run.tried[i].path))
    /\ (last.err # NoErr) <=> (Restored # 1..Len(run.tried))

\* C22: restore --all hands to the single-entry restore only entries directly
\* under shared/, each once and none nested; in link mode the only links it
\* makes are at the destinations of those entries, one for a directory.
C22_TopLevelOnly ==
  RestoredAll =>
    /\ \A i \in 1..Len(run.tried) :
         /\ Len(run.tried[i].path) = 1
         /\ \E k \in 1..Len(TopLevel(PreFs)) : run.tried[i].path = TopLevel(PreFs)[k]
         /\ \A j \in 1..Len(run.tried) : run.tried[j].path = run.tried[i].path => j = i
    /\ run.opts.link =>
         (Links(files) \cap Changed(PreFs, files))
           \subseteq {Lstat(files, Destination(run.tried[i].path)).path : i \in Restored}

C22_Witness ==
  /\ RestoredAll /\ run.opts.link /\ run.opts.to = NoArg
  /\ last.cwd.area = "tree"
  /\ <<"d", "a">> \in DOMAIN TreeAt(PreFs, SharedDir)
  /\ Restored = {1, 2}
  /\ files[InTree(<<"d">>)].kind = "link"

\* C23: restore --all restores every top-level entry E to <worktree root>/E
\* whatever the value of --to, and writes nowhere else.
C23_AllIgnoresTo ==
  RestoredAll =>
    /\ \A i \in Restored : Found(Lstat(files, InTree(run.tried[i].path)))
    /\ \A q \in Changed(PreFs, files) :
         \E i \in 1..Len(run.tried) :
           /\ Len(q) >= Len(InTree(run.tried[i].path))
           /\ SubSeq(q, 1, Len(InTree(run.tried[i].path))) = InTree(run.tried[i].path)

\* C24: restore given both a path and --all, or neither, fails with the usage
\* error wherever it is started (outside a repository and in the bare root
\* too) and whatever the store, and changes no file.
C24_UsageErrorsFirst ==
  LastOp("restore") =>
    /\ (run.opts.all /\ Len(run.args) > 0) =>
         (last.err = <<"cannot specify file with --all flag">> /\ files = PreFs)
    /\ (~run.opts.all /\ Len(run.args) = 0) =>
         (last.err = <<"must specify a file/directory or use --all flag">> /\ files = PreFs)

C24_Witness ==
  /\ LastOp("restore") /\ last.cwd.area = "none"
  /\ run.opts.all /\ Len(run.args) > 0
  /\ last.err = <<"cannot specify file with --all flag">>

\* a restore with one path or with --all, not both, run in a worktree
WellFormed ==
  /\ LastOp("restore") /\ RanInWorktree
  /\ run.opts.all <=> run.args = <<>>

\* C25: without shared/ a restore of one path or of all fails with the
\* no-persisted-files error, having tried no entry and changed no file; with
\* an empty shared/ restore --all succeeds, having tried no entry and changed
\* no file.
C25_NoStoreOrEmptyStore ==
  WellFormed =>
    /\ IsNotExist(Stat(PreFs, SharedDir)) =>
         /\ last.err = <<"no persisted files found">>
         /\ run.tried = <<>>
         /\ files = PreFs
    /\ (run.opts.all /\ IsDir(PreFs, SharedDir) /\ ReadDir(PreFs, SharedDir) = <<>>) =>
         /\ Succeeded
         /\ run.tried = <<>>
         /\ files = PreFs

C25_Witness ==
  /\ WellFormed /\ run.opts.all /\ run.opts.force
  /\ IsDir(PreFs, SharedDir) /\ ReadDir(PreFs, SharedDir) = <<>>
  /\ Succeeded

\* C26: a restore of one relative path that is not in the store fails with
\* the not-found error, copying or linking, with or without --force and
\* whatever --to, and changes no file.
C26_NotPersistedRejected ==
  (RestoredOne /\ ~IsNotExist(Stat(PreFs, SharedDir)) /\ ~Listed(PreFs, ArgPath)) =>
    /\ last.err = <<"file not found in shared storage">>
    /\ files = PreFs

\* C27: a restore of one path that succeeds leaves an entry at the override
\* when it is absolute, at <worktree root>/<override> when it is relative
\* (whatever directory of the worktree the command is started in), and at
\* <worktree root>/<path> without an override; the directory of the
\* destination exists then, made when it was missing.
C27_Destination ==
  (RestoredOne /\ Succeeded) =>
    /\ Found(Lstat(files, Destination(ArgPath)))
    /\ IsDir(files, Dir(Destination(ArgPath)))

C27_Witness ==
  /\ RestoredOne /\ Succeeded
  /\ last.cwd = Below(workspacePath, <<"d">>)
  /\ run.opts.to = ToRel
  /\ ~Found(Lstat(PreFs, SlotDir(workspacePath) \o <<"b">>))
  /\ files[SlotDir(workspacePath) \o <<"b", "a">>] = PreFs[InShared(ArgPath)]
  /\ SlotDir(workspacePath) \o <<"d", "b", "a">> \notin DOMAIN files

(***************************************************************************)
(* Properties of sanitizeBranchName and detectLocation.                    *)
(***************************************************************************)
\* the last step applied sanitizeBranchName to run.arg, or detectLocation
\* in the directory run.arg, and run.out is what it returned
Sanitized == run.fn = "sanitizeBranchName"
Located == run.fn = "detectLocation"

\* the bytes of a name
BytesOf(name) == {name[i] : i \in 1..Len(name)}

\* C28: sanitizeBranchName returns, for every name, a name of the same
\* length that has '-' wherever the name has '/' and the name's own byte
\* everywhere else; the result holds no '/'; and sanitizeBranchName applied
\* to its own result returns that result.
C28_SlashToDashOnly ==
  Sanitized =>
    /\ Len(run.out) = Len(run.arg)
    /\ \A i \in 1..Len(run.arg) :
         run.out[i] = IF run.arg[i] = "/" THEN "-" ELSE run.arg[i]
    /\ "/" \notin BytesOf(run.out)
    /\ run.n > 1 => run.out = run.arg

\* the directory is inside a worktree of the bare repository r
InWorktreeOfBare ==
  \E w \in LinkedWorktrees : IsAbove(BareDir, w.gitDir) /\ IsAbove(w.root, run.arg)

\* C29: detectLocation returns 'bare-root' in the bare repository's
\* directory and 'workspace' at or below its workspace, both with the bare
\* repository as root; it returns an error at or below a directory of
\* tree/, and an error everywhere else inside a worktree of the repository.
C29_OneOutcomePerLocation ==
  Located =>
    /\ run.arg = BareDir =>
         run.out = [bareRepoRoot |-> BareDir, location |-> "bare-root", err |-> NoErr]
    /\ IsAbove(BareDir \o <<"workspace">>, run.arg) =>
         run.out = [bareRepoRoot |-> BareDir, location |-> "workspace", err |-> NoErr]
    /\ (InWorktreeOfBare /\ IsAbove(BareDir \o <<"tree">>, run.arg)) => run.out.err # NoErr
    /\ (/\ InWorktreeOfBare
        /\ ~IsAbove(BareDir \o <<"workspace">>, run.arg)
        /\ ~IsAbove(BareDir \o <<"tree">>, run.arg)) => run.out.err # NoErr

(***************************************************************************)
(* The order of the steps of one switch, read from its call log.           *)
(***************************************************************************)
\* the calls of the vacating step take the workspace as their source; the
\* calls of the occupying step take it as their destination
VacatingCalls ==
  {i \in Calls("move") \cup Calls("rename") : last.log[i].src = workspacePath}
OccupyingCalls ==
  {i \in Calls("move") \cup Calls("rename") \cup Calls("add") :
     last.log[i].dst = workspacePath}

\* the vacating moveWorktree returned an error: git worktree move failed,
\* and then the rename or the repair
VacatingFailed ==
  \E i \in VacatingCalls :
    /\ last.log[i].call = "move" /\ ~last.log[i].ok
    /\ ~(/\ i + 1 \in VacatingCalls \cap Calls("rename") /\ last.log[i + 1].ok
          /\ i + 2 \in Calls("repair") /\ last.log[i + 2].ok)

\* the workspace directory is there when call j is made
OccupiedAt(j) ==
  /\ Exists(Pre, workspacePath)
  /\ ~\E i \in VacatingCalls : i < j /\ last.log[i].ok

\* C30: a switch makes no call when the location is rejected; it calls
\* moveWorktree on the workspace at most once and only when the workspace
\* existed; every call of the vacating step precedes every call of the
\* occupying step; once occupying is reached the switch makes exactly one
\* of one move tree/<target> -> workspace and one git worktree add; no call
\* of the occupying step is made after a vacating step that failed; and no
\* call of the occupying step succeeds with the workspace directory there.
C30_LocateVacateOccupy ==
  LastSwitch =>
    /\ detectLocation(last.cwd).err # NoErr => last.log = <<>>
    /\ Cardinality(VacatingCalls \cap Calls("move")) <= 1
    /\ VacatingCalls # {} => Exists(Pre, workspacePath)
    /\ \A i \in VacatingCalls : \A j \in OccupyingCalls : i < j
    /\ OccupyReached =>
         Cardinality((OccupyingCalls \cap Calls("move")) \cup Calls("add")) = 1
    /\ VacatingFailed => (OccupyingCalls = {} /\ last.err # NoErr)
    /\ \A j \in OccupyingCalls : last.log[j].ok => ~OccupiedAt(j)

\* a switch that parked the workspace through rename and repair and then
\* moved the parked target into the workspace
C30_Witness ==
  /\ LastSwitch /\ Succeeded
  /\ \E i \in VacatingCalls : last.log[i].call = "rename" /\ last.log[i].ok
  /\ \E j \in OccupyingCalls : last.log[j].ok /\ last.log[j].call \in {"move", "rename"}

(***************************************************************************)
(* What a switch leaves of the worktrees it found.                         *)
(***************************************************************************)
\* the directories of the slots: the workspace and the directories of tree/
SlotPaths == {workspacePath} \cup {TreePath(sanitizeBranchName(n)) : n \in Idents}

CheckedOutElsewhere(st, b) ==
  \E w \in DOMAIN st.reg :
    /\ st.reg[w].head = [kind |-> "branch", ref |-> b]
    /\ st.reg[w].path # workspacePath

\* C32: a switch to a branch of the repository that no other slot has
\* checked out, started after switches that all reported success, reports
\* success.
C32_CanSwitchOn ==
  (LastSwitch /\ last.arg \in Branches /\ ~CheckedOutElsewhere(Pre, last.arg)) => Succeeded

(***************************************************************************)
(* switch to the branch the workspace is on.                               *)
(***************************************************************************)
\* the switch was asked for the branch the workspace had checked out
SwitchedToCurrent ==
  /\ LastSwitch
  /\ detectLocation(last.cwd).err = NoErr
  /\ Exists(Pre, workspacePath)
  /\ last.arg # <<>>
  /\ getCurrentBranch(Pre, workspacePath) = last.arg

\* no system call and no git command of the switch failed
NoCallFailed ==
  /\ \A i \in 1..Len(last.log) : last.log[i].ok
  /\ last.err # NoErr =>
       last.err[1] \notin {"error changing to bare repo directory",
                           "error getting current branch from workspace",
                           "error creating tree directory"}

\* C33: a switch to the branch the workspace is on, none of whose calls
\* fails, reports success and leaves every worktree directory and every
\* registration where it was: the same worktree in the workspace, nothing
\* at tree/<sanitize(B)> that was not there, the parked slots as before.
C33_SwitchToCurrent ==
  (SwitchedToCurrent /\ NoCallFailed) =>
    /\ Succeeded
    /\ disk = Pre.disk
    /\ reg = Pre.reg

(***************************************************************************)
(* One parked slot for one name.                                           *)
(***************************************************************************)
\* C34: the identifier a switch or checkout is given shares its directory
\* name with no other identifier a worktree was made for, and the worktree
\* a switch moves from tree/<sanitize(T)> into the workspace is the
\* worktree of T.
C34_OneNameOneSlot ==
  (LastSwitch \/ last.op = "checkout") =>
    /\ \A w \in DOMAIN reg :
         sanitizeBranchName(w.ref) = sanitizeBranchName(last.arg) => w.ref = last.arg
    /\ LastSwitch =>
         \A i \in 1..Len(last.log) :
           MovedBy(i, TreePath(sanitizeBranchName(last.arg)), workspacePath) =>
             \A w \in WtAt(Now, workspacePath) : reg[w].head.ref = last.arg

(***************************************************************************)
(* restore and the store.                                                  *)
(***************************************************************************)
\* C35: a restore started in a worktree leaves everything below shared/ as
\* it was: the same entries with the same content and permission bits.
C35_RestoreKeepsStore ==
  (LastOp("restore") /\ RanInWorktree) => Store(files) = Store(PreFs)

(***************************************************************************)
(* persist add undone by persist remove.                                   *)
(***************************************************************************)
\* the step removes, with success, the path the invocation before it added
\* with success
AddThenRemove ==
  /\ LastOp("add") /\ RanInWorktree /\ Succeeded
  /\ last'.op = "remove" /\ InWorktree(last'.cwd) /\ last'.err = NoErr
  /\ run'.args = run.args

\* C36: persist add P followed by persist remove P leaves persist list
\* printing the entries it printed before the add.
C36_AddRemoveRoundTrip ==
  [][AddThenRemove =>
       persistListRunE(files', workspacePath).out = persistListRunE(PreFs, workspacePath).out]_vars

(***************************************************************************)
(* persist add and persist remove stay inside shared/.                     *)
(***************************************************************************)
\* C37: persist add and persist remove, whatever the form of the path they
\* are given, leave everything outside shared/ as it was and do not delete
\* shared/ itself.
C37_OnlyInsideShared ==
  ((LastOp("add") \/ LastOp("remove")) /\ RanInWorktree) =>
    /\ Outside(files) = Outside(PreFs)
    /\ SharedDir \in DOMAIN PreFs => SharedDir \in DOMAIN files

(***************************************************************************)
(* The count restore --all reports.                                        *)
(***************************************************************************)
\* the entries of restore --all that restoreFile returned an error for
NotRestored == {i \in 1..Len(run.tried) : run.tried[i].err # NoErr}

\* C38: restore --all hands every top-level entry the store had when it
\* started to restoreFile exactly once, and the number it reports as
\* restored plus the number of errors it collected is the number of those
\* entries.
C38_CountsAddUp ==
  RestoredAll =>
    /\ \A k \in 1..Len(TopLevel(PreFs)) :
         Cardinality({i \in 1..Len(run.tried) : run.tried[i].path = TopLevel(PreFs)[k]}) = 1
    /\ Cardinality(Restored) + Cardinality(NotRestored) = Len(TopLevel(PreFs))

(***************************************************************************)
(* Several invocations at once.  The tool takes no lock, so between the    *)
(* os.Stat that guards a step and the step itself the other invocations    *)
(* run.  An invocation is [pc, arg, cwd, ...]: where it is in its RunE,    *)
(* its command-line argument, the directory it was started in, and what    *)
(* its local variables hold.  A step is the stretch of RunE from one       *)
(* guarded call to the next.                                               *)
(***************************************************************************)
\* bound on the invocations running at once
MaxInvocations == 2

\* switch up to the collision test: detectLocation, os.Stat(workspacePath),
\* getCurrentBranch, os.MkdirAll(treeDir), the detached-HEAD test and
\* os.Stat(currentTargetPath)
switchChecks(st, cwd) ==
  LET loc == detectLocation(cwd)
      workspaceExists == Exists(st, workspacePath)
      currentBranch == IF workspaceExists THEN getCurrentBranch(st, workspacePath) ELSE <<>>
      made == MkdirTree(st)
      currentTargetPath == IF workspaceExists
                             THEN TreePath(sanitizeBranchName(currentBranch))
                             ELSE NoPath
      found == [workspaceExists |-> workspaceExists, currentTargetPath |-> currentTargetPath]
  IN  IF loc.err # NoErr THEN [st |-> st, err |-> loc.err] @@ found
      ELSE IF workspaceExists /\ currentBranch = <<>>
        THEN [st |-> made, err |-> <<"workspace exists but is in detached HEAD state">>]
               @@ found
      ELSE IF workspaceExists /\ Exists(made, currentTargetPath)
        THEN [st |-> made, err |-> <<"tree/<current> already exists, this shouldn't happen">>]
               @@ found
      ELSE [st |-> made, err |-> NoErr] @@ found

\* switch, the vacating move: moveWorktree(workspacePath, currentTargetPath)
switchMoves(st, currentTargetPath) ==
  LET mv == moveWorktree(st, workspacePath, currentTargetPath, MoveOk)
  IN  IF mv.err # NoErr
        THEN [st |-> mv.st, err |-> Wrap("error moving workspace to tree", mv.err)]
        ELSE [st |-> mv.st, err |-> NoErr]

\* persist add up to the already-persisted test, without that test
persistAddChecksNoStoreTest(fs, cwd, targetPath) ==
  LET roots == findRepoRoots(cwd)
      absTargetPath == IF targetPath.abs THEN targetPath.comps
                       ELSE Join(roots.worktreeRoot, targetPath.comps)
      relPath == Rel(roots.worktreeRoot, CleanFrom(<<>>, absTargetPath))
      destPath == Join(SharedDir, relPath)
      found == [absTargetPath |-> absTargetPath, destPath |-> destPath]
  IN  IF roots.err # NoErr THEN [err |-> roots.err] @@ found
      ELSE IF IsNotExist(Stat(fs, absTargetPath))
        THEN [err |-> <<"file or directory does not exist">>] @@ found
      ELSE [err |-> NoErr] @@ found

\* persist add up to the already-persisted test: findRepoRoots,
\* os.Stat(absTargetPath), filepath.Rel and os.Stat(destPath)
persistAddChecks(fs, cwd, targetPath) ==
  LET roots == findRepoRoots(cwd)
      absTargetPath == IF targetPath.abs THEN targetPath.comps
                       ELSE Join(roots.worktreeRoot, targetPath.comps)
      relPath == Rel(roots.worktreeRoot, CleanFrom(<<>>, absTargetPath))
      destPath == Join(SharedDir, relPath)
      found == [absTargetPath |-> absTargetPath, destPath |-> destPath]
  IN  IF roots.err # NoErr THEN [err |-> roots.err] @@ found
      ELSE IF IsNotExist(Stat(fs, absTargetPath))
        THEN [err |-> <<"file or directory does not exist">>] @@ found
      ELSE IF Found(Stat(fs, destPath))
        THEN [err |-> <<"file already exists in shared storage">>] @@ found
      ELSE [err |-> NoErr] @@ found

\* persist add from there on: os.MkdirAll(filepath.Dir(destPath)) and
\* copyPath(absTargetPath, destPath)
persistAddCopies(fs, absTargetPath, destPath) ==
  Try(MkdirAll(fs, Dir(destPath), "0755"),
      "error creating shared directory structure",
      LAMBDA made :
        Try(copyPath(made, absTargetPath, destPath),
            "error copying to shared storage", Done))

\* the commands started together: all switch, each with its commitish, from
\* the bare root; or all persist add, each with its path, from a worktree.
\* run.acts counts the steps that moved, created or copied something; an
\* invocation keeps in seen what it was at its check, and in present and
\* between what it found when it took the guarded step.
Launch ==
  /\ steps = 0
  /\ steps' = 1
  /\ \E kind \in {"switch", "add"} :
       \E args \in [1..MaxInvocations ->
                      IF kind = "switch" THEN Idents \ {NoSuchRef} ELSE PathArgs],
          cwds \in [1..MaxInvocations ->
                      IF kind = "switch" THEN {BareRoot} ELSE {e.path : e \in disk}] :
         run' = [kind |-> kind, acts |-> 0,
                 inv |-> [p \in 1..MaxInvocations |->
                            [pc |-> "start", arg |-> args[p], cwd |-> cwds[p], err |-> NoErr,
                             workspaceExists |-> FALSE, currentTargetPath |-> NoPath,
                             absTargetPath |-> <<>>, destPath |-> <<>>,
                             seen |-> 0, acted |-> FALSE, present |-> FALSE,
                             between |-> FALSE]]]
  /\ UNCHANGED <<disk, reg, treeDir, last, scen, files>>

SwitchChecks(p) ==
  /\ steps = 1 /\ run.kind = "switch" /\ run.inv[p].pc = "start"
  /\ LET r == switchChecks(Cur, run.inv[p].cwd)
     IN  /\ disk' = r.st.disk
         /\ reg' = r.st.reg
         /\ treeDir' = r.st.treeDir
         /\ run' = [run EXCEPT !.inv[p] =
                      [pc |-> IF r.err # NoErr THEN "done"
                              ELSE IF r.workspaceExists THEN "checked" ELSE "vacated",
                       err |-> r.err, workspaceExists |-> r.workspaceExists,
                       currentTargetPath |-> r.currentTargetPath, seen |-> run.acts] @@ @]
  /\ UNCHANGED <<last, scen, files, steps>>

SwitchMoves(p) ==
  /\ steps = 1 /\ run.kind = "switch" /\ run.inv[p].pc = "checked"
  /\ LET r == switchMoves(Cur, run.inv[p].currentTargetPath)
     IN  /\ disk' = r.st.disk
         /\ reg' = r.st.reg
         /\ treeDir' = r.st.treeDir
         /\ run' = [run EXCEPT !.acts = @ + 1, !.inv[p] =
                      [pc |-> IF r.err # NoErr THEN "done" ELSE "vacated",
                       err |-> r.err, acted |-> TRUE,
                       present |-> Exists(Cur, run.inv[p].currentTargetPath),
                       between |-> run.acts # run.inv[p].seen] @@ @]
  /\ UNCHANGED <<last, scen, files, steps>>

SwitchOccupies(p) ==
  /\ steps = 1 /\ run.kind = "switch" /\ run.inv[p].pc = "vacated"
  /\ LET r == switchOccupy(Cur, run.inv[p].arg, AllOk)
     IN  /\ Cardinality(DOMAIN r.st.reg) <= MaxWorktrees
         /\ disk' = r.st.disk
         /\ reg' = r.st.reg
         /\ treeDir' = r.st.treeDir
         /\ run' = [run EXCEPT !.acts = @ + 1, !.inv[p] =
                      [pc |-> "done", err |-> r.err] @@ @]
  /\ UNCHANGED <<last, scen, files, steps>>

PersistAddChecks(p) ==
  /\ steps = 1 /\ run.kind = "add" /\ run.inv[p].pc = "start"
  /\ LET r == persistAddChecks(files, run.inv[p].cwd, run.inv[p].arg)
     IN  run' = [run EXCEPT !.inv[p] =
                   [pc |-> IF r.err # NoErr THEN "done" ELSE "checked",
                    err |-> r.err, absTargetPath |-> r.absTargetPath,
                    destPath |-> r.destPath, seen |-> run.acts] @@ @]
  /\ UNCHANGED <<disk, reg, treeDir, last, scen, files, steps>>

PersistAddCopies(p) ==
  /\ steps = 1 /\ run.kind = "add" /\ run.inv[p].pc = "checked"
  /\ LET r == persistAddCopies(files, run.inv[p].absTargetPath, run.inv[p].destPath)
     IN  /\ files' = r.fs
         /\ run' = [run EXCEPT !.acts = @ + 1, !.inv[p] =
                      [pc |-> "done", err |-> r.err, acted |-> TRUE,
                       present |-> Found(Stat(files, run.inv[p].destPath)),
                       between |-> run.acts # run.inv[p].seen] @@ @]
  /\ UNCHANGED <<disk, reg, treeDir, last, scen, steps>>

NextRace ==
  \/ Launch
  \/ \E p \in 1..MaxInvocations : SwitchChecks(p)
  \/ \E p \in 1..MaxInvocations : SwitchMoves(p)
  \/ \E p \in 1..MaxInvocations : SwitchOccupies(p)
  \/ \E p \in 1..MaxInvocations : PersistAddChecks(p)
  \/ \E p \in 1..MaxInvocations : PersistAddCopies(p)

SpecRace == InitShare /\ [][NextRace]_vars

(***************************************************************************)
(* The existence checks of invocations that run at once.                   *)
(***************************************************************************)
\* the invocations are running
Launched == steps = 1

\* invocation p passed its existence check and went on to the step the
\* check guards
PassedAndActed(p) == Launched /\ run.inv[p].acted

\* C39: two invocations at once can both pass their existence check and
\* both go on to the step it guards; an invocation takes that step with the
\* checked path present only when another invocation moved or copied
\* something between its check and its step, which invocations that run one
\* after the other never do.
C39_CheckThenAct ==
  \A p \in 1..MaxInvocations :
    (PassedAndActed(p) /\ run.inv[p].present) => run.inv[p].between

\* two persist add of one path both passed the already-persisted test and
\* both copied
C39_Witness ==
  /\ Launched
  /\ run.kind = "add"
  /\ run.inv[1].destPath = run.inv[2].destPath
  /\ \A p \in {1, 2} : PassedAndActed(p) /\ run.inv[p].pc = "done" /\ run.inv[p].err = NoErr
  /\ \E p \in {1, 2} : run.inv[p].present

====
